---- MODULE Spec2Model ----
(***************************************************************************)
(* Variant-tree configurator backend (src/api.py, src/import_data.py).     *)
(*                                                                         *)
(* The store is modelled as two relations: nodes (id -> row) and           *)
(* node_paths (the closure table).  Each endpoint is one action that       *)
(* carries out every statement of its handler up to commit.                *)
(***************************************************************************)
EXTENDS Integers, Sequences, FiniteSets, TLC

VARIABLES
    nodes,      \* table nodes: [id -> row], DOMAIN nodes = ids of the stored rows
    paths,      \* table node_paths: set of rows [ancestor_id, descendant_id, depth]
    seq,        \* highest id handed out for table nodes (ids are never reused)
    last,       \* what the last admin mutator did (operation, arguments, response)
    optReq,     \* OptionsRequest being served by get_available_options, or NoReq
    optRes,     \* its response: a sequence of AvailableOption, or an error record
    users,      \* table users: [id -> [role, is_active]]
    upc,        \* delete_user requests: position of each request in its handler
    ureq,       \* delete_user requests: [user_id, current_user] of each request
    urow,       \* delete_user requests: role of the row the existence check fetched
    ures,       \* delete_user requests: HTTP status of the response, 0 while running
    lock,       \* the request that holds the database's EXCLUSIVE lock, or NoId
    constraints,\* table constraints with its conditions and codes: a set of rows
    call,       \* the read-only lookup being served (decode, check, validate), or NoCall
    answer,     \* what the lookup returned, NoAnswer until it has returned
    successors, \* table product_successors: a set of rows
    links,      \* column links of table nodes: [node id -> sequence of links]
    pictures,   \* column pictures of table nodes: [node id -> sequence of pictures]
    uploads     \* add_node_link and upload_node_image requests: position and locals

vars == <<nodes, paths, seq, last, optReq, optRes, users, upc, ureq, urow, ures, lock,
          constraints, call, answer, successors, links, pictures, uploads>>

treeVars == <<nodes, paths, seq, last>>
optVars == <<optReq, optRes>>
userVars == <<users, upc, ureq, urow, ures, lock>>
mediaVars == <<links, pictures, uploads>>
adminVars == <<successors, mediaVars>>
lookupVars == <<constraints, call, answer, adminVars>>

-----------------------------------------------------------------------------
(* Bounds of the model *)

MaxNodes == 6          \* rows of table nodes the mutators may fill
MaxSelections == 3     \* length of OptionsRequest.previous_selections
MaxLevel == 3          \* deepest level in requests and catalogues

(* SQL NULL / Python None *)
NULL == "NULL"         \* a NULL text column (code, group_name)
NoId == 0              \* a NULL id (parent_id NULL, Selection.id None)
NoPattern == 0         \* a NULL pattern
NoText == <<NULL>>     \* a NULL text that is handled character by character
NoPosition == 0 - 1    \* a position that is None

Codes == {"A", "B", "C", "F", "G", "X"}
Patterns == {2, 10}

-----------------------------------------------------------------------------
(* Rows *)

\* a row of table nodes; name and label hold the requests' default "" and
\* label_en their default None until update_node sets them; full_typecode is
\* NULL unless the import sets it
Row(code, level, parent_id, position, pattern, group_name) ==
    [code |-> code, level |-> level, parent_id |-> parent_id,
     position |-> position, pattern |-> pattern, group_name |-> group_name,
     name |-> "", label |-> "", label_en |-> NULL, full_typecode |-> NoText]

PathRow(a, d, k) == [ancestor_id |-> a, descendant_id |-> d, depth |-> k]

Ids(ns) == DOMAIN ns

Max(S) == CHOOSE x \in S : \A y \in S : y <= x
Min(S) == CHOOSE x \in S : \A y \in S : x <= y

\* cursor.lastrowid of an INSERT INTO nodes
lastrowid(s) == s + 1

-----------------------------------------------------------------------------
(* Closure-table triggers of the schema *)

\* trg_node_insert: fires only when parent_id IS NOT NULL; the new node gets its
\* self-reference and a copy of every path of the parent with depth + 1
trg_node_insert(ps, id, parent_id) ==
    IF parent_id = NoId THEN ps
    ELSE ps \cup {PathRow(id, id, 0)}
            \cup {PathRow(p.ancestor_id, id, p.depth + 1) :
                    p \in {q \in ps : q.descendant_id = parent_id}}

\* trg_node_delete: removes every path that has a deleted node at either end
trg_node_delete(ps, gone) ==
    {p \in ps : p.ancestor_id \notin gone /\ p.descendant_id \notin gone}

\* INSERT INTO nodes (...) VALUES (...): the row stored under the new id
InsertNode(ns, id, row) == [i \in Ids(ns) \cup {id} |-> IF i = id THEN row ELSE ns[i]]

-----------------------------------------------------------------------------
(* Bulk import: the catalogue the API starts from *)

\* VariantTreeImporter._import_node: a pattern container keeps its parent's
\* level, a coded node gets parent_level + 1 (a root is imported with
\* parent_level = -1)
import_level(code, pattern, parent_level) ==
    IF pattern # NoPattern /\ code = NULL THEN parent_level ELSE parent_level + 1

\* one imported node: <<code, parent_id, position, pattern, group_name>>, with
\* full_typecode as a sixth entry when the JSON node carries one
RECURSIVE import_nodes(_, _)
import_nodes(cat, n) ==
    IF n = 0 THEN << >>
    ELSE LET done == import_nodes(cat, n - 1)
             e == cat[n]
             pl == IF e[2] = NoId THEN 0 - 1 ELSE done[e[2]].level
             full_typecode == IF Len(e) >= 6 THEN e[6] ELSE NoText
         IN Append(done, [Row(e[1], import_level(e[1], e[4], pl), e[2], e[3], e[4], e[5])
                            EXCEPT !.full_typecode = full_typecode])

\* VariantTreeImporter.build_closure_table, the rows taken in id order: each
\* node gets its self-reference and its parent's paths with depth + 1
RECURSIVE build_closure_table(_, _)
build_closure_table(ns, n) ==
    IF n = 0 THEN {}
    ELSE LET ps == build_closure_table(ns, n - 1)
         IN ps \cup {PathRow(n, n, 0)}
               \cup (IF ns[n].parent_id = NoId THEN {}
                     ELSE {PathRow(p.ancestor_id, n, p.depth + 1) :
                             p \in {q \in ps : q.descendant_id = ns[n].parent_id}})

\* F > A > X and F > B > X > C: code X sits below two different level-1 codes
CatalogueShared ==
    << <<"F", 0, 0, NoPattern, NULL>>,
       <<"A", 1, 0, NoPattern, NULL>>,
       <<"B", 1, 1, NoPattern, NULL>>,
       <<"X", 2, 0, NoPattern, "g1">>,
       <<"X", 3, 0, NoPattern, "g2">>,
       <<"C", 5, 0, NoPattern, "g2">> >>

\* one family whose level-1 codes hang below the pattern containers 10 and 2
CataloguePatterns ==
    << <<"F", 0, 0, NoPattern, NULL>>,
       <<NULL, 1, 0, 10, NULL>>,
       <<NULL, 1, 1, 2, NULL>>,
       <<"A", 2, 1, NoPattern, "g1">>,
       <<"B", 3, 0, NoPattern, "g1">>,
       <<"C", 3, 1, NoPattern, "g2">> >>

\* two families that use the same codes at the same levels
CatalogueFamilies ==
    << <<"F", 0, 0, NoPattern, NULL>>,
       <<"G", 0, 1, NoPattern, NULL>>,
       <<"A", 1, 0, NoPattern, NULL>>,
       <<"A", 2, 0, NoPattern, NULL>>,
       <<"X", 3, 0, NoPattern, "g1">>,
       <<"X", 4, 0, NoPattern, "g2">> >>

\* two small families with the same level-1 code
CatalogueTwins ==
    << <<"F", 0, 0, NoPattern, NULL>>,
       <<"G", 0, 1, NoPattern, NULL>>,
       <<"A", 1, 0, NoPattern, "g1">>,
       <<"A", 2, 0, NoPattern, "g2">> >>

\* one family with a pattern container between the family and its code
CatalogueContainer ==
    << <<"F", 0, 0, NoPattern, NULL>>,
       <<NULL, 1, 0, 2, NULL>>,
       <<"A", 2, 0, NoPattern, "g1">>,
       <<"B", 1, 1, NoPattern, "g1">> >>

\* the catalogues the admin mutators start from
TreeCatalogues == {CatalogueTwins, CatalogueContainer}

\* the catalogues the options resolver is asked about
OptionCatalogues == {CatalogueShared, CataloguePatterns, CatalogueFamilies}

ImportedNodes(cat) ==
    LET rows == import_nodes(cat, Len(cat)) IN [i \in 1..Len(cat) |-> rows[i]]

-----------------------------------------------------------------------------
(* Views of the store *)

\* SELECT descendant_id FROM node_paths WHERE ancestor_id IN (as)
DescendantIds(ps, as) == {p.descendant_id : p \in {q \in ps : q.ancestor_id \in as}}

\* SELECT ancestor_id FROM node_paths WHERE descendant_id IN (ds)
AncestorIds(ps, ds) == {p.ancestor_id : p \in {q \in ps : q.descendant_id \in ds}}

\* the node reached from d by k parent edges, NoId when the chain ends earlier
RECURSIVE ParentChain(_, _, _)
ParentChain(ns, d, k) ==
    IF d \notin Ids(ns) THEN NoId
    ELSE IF k = 0 THEN d
    ELSE ParentChain(ns, ns[d].parent_id, k - 1)

Response(op, status, node_id, source, created, n) ==
    [op |-> op, status |-> status, node_id |-> node_id, source_node_id |-> source,
     created |-> created, nodes_created |-> n]

NoResponse == Response("none", 0, NoId, NoId, {}, 0)

-----------------------------------------------------------------------------
(* Admin mutators *)

\* what a create request may carry: a coded node or a pattern container
NewKinds == {<<"A", NoPattern>>, <<NULL, 2>>}

\* the levels a create request may carry
NewLevels == {0, 1}

\* POST /api/nodes
create_node_without_self_reference(code, level, parent_id, position, pattern, group_name) ==
    /\ seq < MaxNodes
    /\ LET id == lastrowid(seq)
           row == Row(code, level, parent_id, position, pattern, group_name)
       IN /\ nodes' = InsertNode(nodes, id, row)
          /\ paths' = trg_node_insert(paths, id, parent_id)
          /\ seq' = id
          /\ last' = Response("create_node", 200, id, NoId, {id}, 1)

create_node(code, level, parent_id, position, pattern, group_name) ==
    /\ seq < MaxNodes
    /\ LET id == lastrowid(seq)
           row == Row(code, level, parent_id, position, pattern, group_name)
           triggered == trg_node_insert(paths, id, parent_id)
       IN /\ nodes' = InsertNode(nodes, id, row)
          /\ paths' = IF parent_id = NoId
                      THEN triggered \cup {PathRow(id, id, 0)}
                      ELSE triggered
          /\ seq' = id
          /\ last' = Response("create_node", 200, id, NoId, {id}, 1)

\* POST /api/admin/families
create_family(code) ==
    IF code = ""
    THEN /\ last' = Response("create_family", 400, NoId, NoId, {}, 0)
         /\ UNCHANGED <<nodes, paths, seq>>
    ELSE IF \E i \in Ids(nodes) : nodes[i].code = code /\ nodes[i].parent_id = NoId
    THEN /\ last' = Response("create_family", 409, NoId, NoId, {}, 0)
         /\ UNCHANGED <<nodes, paths, seq>>
    ELSE /\ seq < MaxNodes
         /\ LET id == lastrowid(seq)
                roots == {i \in Ids(nodes) : nodes[i].parent_id = NoId}
                position == IF roots = {} THEN 0
                            ELSE Max({nodes[i].position : i \in roots}) + 1
            IN /\ nodes' = InsertNode(nodes, id, Row(code, 0, NoId, position, NoPattern, NULL))
               /\ paths' = trg_node_insert(paths, id, NoId) \cup {PathRow(id, id, 0)}
               /\ seq' = id
               /\ last' = Response("create_family", 200, id, NoId, {id}, 1)

\* DELETE /api/admin/families/{family_code}
delete_family(family_code) ==
    LET found == {i \in Ids(nodes) : /\ nodes[i].code = family_code
                                     /\ nodes[i].parent_id = NoId
                                     /\ nodes[i].level = 0}
    IN IF found = {}
       THEN /\ last' = Response("delete_family", 404, NoId, NoId, {}, 0)
            /\ UNCHANGED <<nodes, paths, seq>>
       ELSE \E family_id \in found :
              LET gone == DescendantIds(paths, {family_id}) \cap Ids(nodes)
              IN /\ nodes' = [i \in Ids(nodes) \ gone |-> nodes[i]]
                 /\ paths' = trg_node_delete(paths, gone)
                 /\ last' = Response("delete_family", 200, family_id, NoId, {}, 0)
                 /\ UNCHANGED seq

\* a delete_node that removes the descendant set of node_id only
delete_node_of_subtree(node_id) ==
    IF node_id \notin Ids(nodes)
    THEN /\ last' = Response("delete_node", 404, node_id, NoId, {}, 0)
         /\ UNCHANGED <<nodes, paths, seq>>
    ELSE IF nodes[node_id].level = 0
    THEN /\ last' = Response("delete_node", 400, node_id, NoId, {}, 0)
         /\ UNCHANGED <<nodes, paths, seq>>
    ELSE IF nodes[node_id].code = NULL
    THEN /\ last' = Response("delete_node", 404, node_id, NoId, {}, 0)
         /\ UNCHANGED <<nodes, paths, seq>>
    ELSE LET gone == DescendantIds(paths, {node_id}) \cap Ids(nodes)
         IN /\ nodes' = [i \in Ids(nodes) \ gone |-> nodes[i]]
            /\ paths' = trg_node_delete(paths, gone)
            /\ last' = Response("delete_node", 200, node_id, NoId, {}, Cardinality(gone))
            /\ UNCHANGED seq

\* DELETE /api/admin/nodes/{node_id}
delete_node(node_id) ==
    IF node_id \notin Ids(nodes)
    THEN /\ last' = Response("delete_node", 404, node_id, NoId, {}, 0)
         /\ UNCHANGED <<nodes, paths, seq>>
    ELSE IF nodes[node_id].level = 0
    THEN /\ last' = Response("delete_node", 400, node_id, NoId, {}, 0)
         /\ UNCHANGED <<nodes, paths, seq>>
    ELSE LET node_code == nodes[node_id].code
             node_level == nodes[node_id].level
             \* WHERE code = ? never matches when the parameter is NULL
             all_node_ids == IF node_code = NULL THEN {}
                             ELSE {i \in Ids(nodes) : /\ nodes[i].code = node_code
                                                      /\ nodes[i].level = node_level}
             gone == DescendantIds(paths, all_node_ids) \cap Ids(nodes)
         IN IF all_node_ids = {}
            THEN /\ last' = Response("delete_node", 404, node_id, NoId, {}, 0)
                 /\ UNCHANGED <<nodes, paths, seq>>
            ELSE /\ nodes' = [i \in Ids(nodes) \ gone |-> nodes[i]]
                 /\ paths' = trg_node_delete(paths, gone)
                 /\ last' = Response("delete_node", 200, node_id, NoId, {}, Cardinality(gone))
                 /\ UNCHANGED seq

\* UPDATE nodes SET ... WHERE id = ?: the fields of the request that are set
updated_row(row, name, label, label_en, group_name) ==
    [row EXCEPT !.name = IF name # NULL THEN name ELSE @,
                !.label = IF label # NULL THEN label ELSE @,
                !.label_en = IF label_en # NULL THEN label_en ELSE @,
                !.group_name = IF group_name # NULL /\ group_name # row.group_name
                               THEN group_name ELSE @]

\* an update_node that does not compare the code of the request
update_node_without_code_check(node_id, code, name, label, label_en, group_name) ==
    IF node_id \notin Ids(nodes)
    THEN /\ last' = Response("update_node", 404, node_id, NoId, {}, 0)
         /\ UNCHANGED <<nodes, paths, seq>>
    ELSE /\ nodes' = [nodes EXCEPT ![node_id] =
                        updated_row([@ EXCEPT !.code = IF code # NULL THEN code ELSE @],
                                    name, label, label_en, group_name)]
         /\ last' = Response("update_node", 200, node_id, NoId, {}, 0)
         /\ UNCHANGED <<paths, seq>>

\* PUT /api/nodes/{node_id}
update_node(node_id, code, name, label, label_en, group_name) ==
    IF node_id \notin Ids(nodes)
    THEN /\ last' = Response("update_node", 404, node_id, NoId, {}, 0)
         /\ UNCHANGED <<nodes, paths, seq>>
    ELSE IF code # NULL /\ code # nodes[node_id].code
    THEN /\ last' = Response("update_node", 400, node_id, NoId, {}, 0)
         /\ UNCHANGED <<nodes, paths, seq>>
    ELSE LET existing == nodes[node_id]
             propagate == group_name # NULL /\ group_name # existing.group_name
             below == IF propagate
                      THEN (DescendantIds(paths, {node_id}) \ {node_id}) \cap Ids(nodes)
                      ELSE {}
         IN /\ nodes' = [i \in Ids(nodes) |->
                           IF i = node_id
                           THEN updated_row(nodes[i], name, label, label_en, group_name)
                           ELSE IF i \in below
                           THEN [nodes[i] EXCEPT !.group_name = group_name]
                           ELSE nodes[i]]
            /\ last' = Response("update_node", 200, node_id, NoId, {}, 0)
            /\ UNCHANGED <<paths, seq>>

\* INSERT OR IGNORE INTO node_paths, (ancestor_id, descendant_id) being the key,
\* of several rows whose keys differ from one another
InsertOrIgnorePaths(ps, rows) ==
    ps \cup {r \in rows : ~ \E p \in ps : /\ p.ancestor_id = r.ancestor_id
                                         /\ p.descendant_id = r.descendant_id}

\* a step 5 that keeps the ancestors of the source instead of taking those of
\* the new parent
copied_paths_of_old_ancestors(ps, parent_id, new_parent_id, source_node_id, old_id, new_id) ==
    {PathRow(IF p.ancestor_id = old_id THEN new_id ELSE p.ancestor_id, new_id, p.depth) :
        p \in {q \in ps : q.descendant_id = old_id}}

\* create_node_with_children, step 5: the closure rows written for the copy
\* new_id of old_id (old_to_new holds exactly old_id -> new_id)
copied_paths(ps, parent_id, new_parent_id, source_node_id, old_id, new_id) ==
    LET old_paths == {p \in ps : p.descendant_id = old_id}
        inside == {p \in old_paths : p.ancestor_id = old_id}
        outside == old_paths \ inside
        parent_ancestors == {p \in ps : p.descendant_id = new_parent_id}
        desc_depth_in_subtree ==
            (CHOOSE p \in ps : p.ancestor_id = source_node_id /\ p.descendant_id = old_id).depth
    IN {PathRow(new_id, new_id, p.depth) : p \in inside}
       \cup (IF outside # {} /\ parent_id # NoId
             THEN {PathRow(pa.ancestor_id, new_id, pa.depth + 1 + desc_depth_in_subtree) :
                     pa \in parent_ancestors}
             ELSE {})

\* POST /api/nodes/with-children
create_node_with_children(code, level, parent_id, position, pattern, group_name, source_node_id) ==
    /\ seq + 2 <= MaxNodes
    /\ LET new_parent_id == lastrowid(seq)
           row == Row(code, level, parent_id, position, pattern, group_name)
           nodes1 == InsertNode(nodes, new_parent_id, row)
           triggered == trg_node_insert(paths, new_parent_id, parent_id)
           paths1 == IF parent_id = NoId
                     THEN triggered \cup {PathRow(new_parent_id, new_parent_id, 0)}
                     ELSE triggered
       IN IF source_node_id \notin Ids(nodes1)
          THEN \* descendants is empty: only the parent is created
               /\ nodes' = nodes1
               /\ paths' = paths1
               /\ seq' = new_parent_id
               /\ last' = Response("create_node_with_children", 200, new_parent_id,
                                   source_node_id, {new_parent_id}, 1)
          ELSE LET desc == nodes1[source_node_id]
                   new_desc_id == lastrowid(new_parent_id)
                   copy == [desc EXCEPT !.parent_id = new_parent_id]
                   nodes2 == InsertNode(nodes1, new_desc_id, copy)
                   paths2 == trg_node_insert(paths1, new_desc_id, new_parent_id)
                   outside == {p \in paths2 : /\ p.descendant_id = source_node_id
                                              /\ p.ancestor_id # source_node_id}
                   \* fetchone()['depth'] on no row raises, the handler rolls back
                   raises == /\ outside # {} /\ parent_id # NoId
                             /\ ~ \E p \in paths2 : /\ p.ancestor_id = source_node_id
                                                    /\ p.descendant_id = source_node_id
               IN IF raises
                  THEN /\ last' = Response("create_node_with_children", 500, NoId,
                                           source_node_id, {}, 0)
                       /\ UNCHANGED <<nodes, paths, seq>>
                  ELSE /\ nodes' = nodes2
                       /\ paths' = InsertOrIgnorePaths(paths2,
                                       copied_paths(paths2, parent_id, new_parent_id,
                                                    source_node_id, source_node_id,
                                                    new_desc_id))
                       /\ seq' = new_desc_id
                       \* total_created = len(descendants) + 1
                       /\ last' = Response("create_node_with_children", 200, new_parent_id,
                                           source_node_id, {new_parent_id, new_desc_id}, 1 + 1)

-----------------------------------------------------------------------------
(* Compatibility engine: POST /api/options                                 *)

Selection(code, level, id, ids) == [code |-> code, level |-> level, id |-> id, ids |-> ids]

OptionsRequest(target_level, previous_selections, group_filter) ==
    [target_level |-> target_level, previous_selections |-> previous_selections,
     group_filter |-> group_filter]

NoReq == OptionsRequest(0 - 1, << >>, NULL)

OptionsResponse(status, options, family_id, representative) ==
    [status |-> status, options |-> options, family_id |-> family_id,
     representative |-> representative]

NoRes == OptionsResponse(0, << >>, NoId, << >>)

\* a resolver that takes the family from the last level-0 selection
RECURSIVE root_family_last(_, _)
root_family_last(sels, i) ==
    IF i > Len(sels) THEN NULL
    ELSE LET later == root_family_last(sels, i + 1)
         IN IF later # NULL THEN later
            ELSE IF sels[i].level = 0 THEN sels[i].code
            ELSE NULL

\* the first selection with level 0 names the family; None when there is none
RECURSIVE root_family(_, _)
root_family(sels, i) ==
    IF i > Len(sels) THEN NULL
    ELSE IF sels[i].level = 0 THEN sels[i].code
    ELSE root_family(sels, i + 1)

\* (SELECT id FROM nodes WHERE code = ? AND level = 0): the rows the scalar
\* subquery may yield, NULL when no row matches
family_ids(ns, code) ==
    LET found == {i \in Ids(ns) : ns[i].code = code /\ ns[i].level = 0}
    IN IF found = {} THEN {NoId} ELSE found

\* LEFT JOIN nodes parent ON n.parent_id = parent.id: parent.pattern
parent_pattern(ns, n) ==
    IF ns[n].parent_id \in Ids(ns) THEN ns[ns[n].parent_id].pattern ELSE NoPattern

\* step 1 without the family condition: every coded node of the target level
candidates_of_any_family(ns, ps, target_level, family_id) ==
    {n \in Ids(ns) : ns[n].level = target_level /\ ns[n].code # NULL}

\* step 1: the coded nodes of the target level below the family
candidates(ns, ps, target_level, family_id) ==
    {n \in Ids(ns) : /\ ns[n].level = target_level
                     /\ ns[n].code # NULL
                     /\ \E p \in ps : p.descendant_id = n /\ p.ancestor_id = family_id}

\* ORDER BY parent.pattern, n.position, n.code inside one code: the rows that
\* may come first (NULL sorts first; equal keys come in any order)
first_rows(ns, group) ==
    {n \in group : \A o \in group :
        \/ parent_pattern(ns, n) < parent_pattern(ns, o)
        \/ /\ parent_pattern(ns, n) = parent_pattern(ns, o)
           /\ ns[n].position <= ns[o].position}

\* the ids a selection carries: ids, else the deprecated id, else nothing
sel_ids(selection) ==
    IF selection.ids # {} THEN selection.ids
    ELSE IF selection.id # NoId THEN {selection.id}
    ELSE {}

\* a backward check that follows the paths in the forward direction
keep_ids_forward_only(ps, target_level, selection, ids, filtered_ids) ==
    DescendantIds(ps, ids) \cap filtered_ids

\* one pruning step: descendants of an earlier selection, ancestors of a later one
keep_ids(ps, target_level, selection, ids, filtered_ids) ==
    IF selection.level < target_level
    THEN DescendantIds(ps, ids) \cap filtered_ids
    ELSE AncestorIds(ps, ids) \cap filtered_ids

\* the pruning loop over previous_selections[1..n]
RECURSIVE filter_ids(_, _, _, _, _)
filter_ids(ps, target_level, sels, n, all_ids) ==
    IF n = 0 THEN all_ids
    ELSE LET filtered_ids == filter_ids(ps, target_level, sels, n - 1, all_ids)
             selection == sels[n]
             ids == sel_ids(selection)
         IN IF selection.level = target_level THEN filtered_ids
            ELSE IF ids = {} THEN filtered_ids
            ELSE IF filtered_ids = {} THEN filtered_ids
            ELSE keep_ids(ps, target_level, selection, ids, filtered_ids)

\* a batch check that follows the paths in the forward direction only
path_exists_forward_only(ps, target_level, selection, ids, all_ids) ==
    \E p \in ps : p.ancestor_id \in ids /\ p.descendant_id \in all_ids

\* the batch check of one selection against the ids of the group
path_exists(ps, target_level, selection, ids, all_ids) ==
    IF selection.level < target_level
    THEN \E p \in ps : p.ancestor_id \in ids /\ p.descendant_id \in all_ids
    ELSE \E p \in ps : p.ancestor_id \in all_ids /\ p.descendant_id \in ids

\* a compatibility loop that does not skip a selection without ids
is_compatible_without_skip(ps, target_level, sels, all_ids) ==
    \A i \in 1..Len(sels) :
        \/ sels[i].level = target_level
        \/ path_exists(ps, target_level, sels[i], sel_ids(sels[i]), all_ids)

\* the compatibility loop: every usable selection of another level has a path
is_compatible(ps, target_level, sels, all_ids) ==
    \A i \in 1..Len(sels) :
        \/ sels[i].level = target_level
        \/ sel_ids(sels[i]) = {}
        \/ path_exists(ps, target_level, sels[i], sel_ids(sels[i]), all_ids)

\* the group filter: some node in the subtrees of the ids has the group
group_compatible(ns, ps, group_filter, all_ids) ==
    \/ group_filter = NULL
    \/ group_filter = ""
    \/ \E n \in Ids(ns) : /\ ns[n].group_name = group_filter
                          /\ n \in DescendantIds(ps, all_ids)

\* the AvailableOption of one code group (labels, pictures and links left out)
available_option(ns, ps, req, group, rep) ==
    LET sels == req.previous_selections
        filtered_ids == filter_ids(ps, req.target_level, sels, Len(sels), group)
        all_ids == IF filtered_ids # {} THEN filtered_ids ELSE group
    IN [id |-> rep,
        ids |-> all_ids,
        code |-> ns[rep].code,
        level |-> ns[rep].level,
        position |-> ns[rep].position,
        is_compatible |-> /\ is_compatible(ps, req.target_level, sels, all_ids)
                          /\ group_compatible(ns, ps, req.group_filter, all_ids),
        parent_pattern |-> parent_pattern(ns, rep)]

\* str(n) of a pattern: its decimal digits
RECURSIVE decimal_digits(_)
decimal_digits(n) ==
    IF n < 10 THEN <<n>> ELSE Append(decimal_digits(n \div 10), n % 10)

\* Python's < on two strings of digits
RECURSIVE str_less(_, _)
str_less(a, b) ==
    IF b = << >> THEN FALSE
    ELSE IF a = << >> THEN TRUE
    ELSE IF Head(a) # Head(b) THEN Head(a) < Head(b)
    ELSE str_less(Tail(a), Tail(b))

\* the codes of the model in Python's string order
CodesSorted == <<"A", "B", "C", "F", "G", "X">>

code_rank(code) == CHOOSE i \in 1..Len(CodesSorted) : CodesSorted[i] = code

\* str(x.parent_pattern) if x.parent_pattern is not None else ''
pattern_key(pattern) == IF pattern = NoPattern THEN << >> ELSE decimal_digits(pattern)

\* x sorts before y under the key (pattern, not is_compatible, position, code)
key_less(x, y) ==
    LET px == pattern_key(x.parent_pattern)
        py == pattern_key(y.parent_pattern)
    IN \/ str_less(px, py)
       \/ /\ px = py
          /\ \/ x.is_compatible /\ ~y.is_compatible
             \/ /\ x.is_compatible = y.is_compatible
                /\ \/ x.position < y.position
                   \/ /\ x.position = y.position
                      /\ code_rank(x.code) < code_rank(y.code)

\* results.sort(key=...): the options of distinct codes in key order
RECURSIVE sort_options(_)
sort_options(opts) ==
    IF opts = {} THEN << >>
    ELSE LET first == CHOOSE x \in opts : \A y \in opts \ {x} : key_less(x, y)
         IN <<first>> \o sort_options(opts \ {first})

\* the code groups of the candidates of a family
code_groups(ns, ps, target_level, family_id) ==
    LET rows == candidates(ns, ps, target_level, family_id)
    IN [c \in {ns[n].code : n \in rows} |-> {n \in rows : ns[n].code = c}]

\* the rows that may be nodes_with_code[0] of each code group
representatives(ns, groups) ==
    {rep \in [DOMAIN groups -> UNION {groups[c] : c \in DOMAIN groups}] :
        \A c \in DOMAIN groups : rep[c] \in first_rows(ns, groups[c])}

\* steps 2 and 3: one option per code group, sorted
results(ns, ps, req, family_id, rep) ==
    LET groups == code_groups(ns, ps, req.target_level, family_id)
    IN sort_options({available_option(ns, ps, req, groups[c], rep[c]) : c \in DOMAIN groups})

\* POST /api/options
get_available_options(req) ==
    /\ optReq' = req
    /\ LET family_code == root_family(req.previous_selections, 1)
       IN IF family_code = NULL \/ family_code = ""
          THEN optRes' = OptionsResponse(400, << >>, NoId, << >>)
          ELSE \E family_id \in family_ids(nodes, family_code) :
                 \E rep \in representatives(nodes,
                                code_groups(nodes, paths, req.target_level, family_id)) :
                   optRes' = OptionsResponse(200, results(nodes, paths, req, family_id, rep),
                                             family_id, rep)

\* the response has been sent
options_return ==
    /\ optReq # NoReq
    /\ optReq' = NoReq
    /\ optRes' = NoRes

\* the selections a client may send for the stored nodes: for every code and
\* level any set of the nodes having them, the deprecated single id, and a
\* family selection without a code or with a code no family has
SelectionPool(ns) ==
    LET coded == {i \in Ids(ns) : ns[i].code # NULL}
        same(i) == {j \in coded : ns[j].code = ns[i].code /\ ns[j].level = ns[i].level}
    IN UNION {{Selection(ns[i].code, ns[i].level, NoId, S) : S \in SUBSET same(i)} : i \in coded}
       \cup {Selection(ns[i].code, ns[i].level, i, {}) : i \in {Max(coded)}}
       \cup {Selection("", 0, NoId, {}), Selection("X", 0, NoId, {})}

RECURSIVE SeqsUpTo(_, _)
SeqsUpTo(S, n) ==
    IF n = 0 THEN {<< >>}
    ELSE LET shorter == SeqsUpTo(S, n - 1)
         IN shorter \cup {Append(q, x) : q \in {r \in shorter : Len(r) = n - 1}, x \in S}

-----------------------------------------------------------------------------
(* Specification of the admin mutators *)

InitTree ==
    /\ \E cat \in TreeCatalogues :
         /\ nodes = ImportedNodes(cat)
         /\ paths = build_closure_table(ImportedNodes(cat), Len(cat))
         /\ seq = Len(cat)
    /\ last = NoResponse

\* no options request is being served
InitOptionsIdle == optReq = NoReq /\ optRes = NoRes

\* the users table is empty and no delete_user request exists
InitUsersIdle ==
    /\ users = << >> /\ upc = << >> /\ ureq = << >> /\ urow = << >> /\ ures = << >>
    /\ lock = NoId

\* no lookup is being served and no constraint is stored
NoCall == [op |-> "none"]
NoAnswer == [status |-> 0]
\* no link or picture is stored and no media request exists
InitMediaIdle == links = << >> /\ pictures = << >> /\ uploads = << >>

\* no successor is stored
InitAdminIdle == successors = {} /\ InitMediaIdle

InitLookupIdle == constraints = {} /\ call = NoCall /\ answer = NoAnswer /\ InitAdminIdle

Init == InitTree /\ InitOptionsIdle /\ InitUsersIdle /\ InitLookupIdle

CreateNode ==
    /\ \E kind \in NewKinds, level \in NewLevels, parent_id \in Ids(nodes) \cup {NoId} :
         create_node(kind[1], level, parent_id, 0, kind[2], NULL)
    /\ UNCHANGED <<optVars, userVars, lookupVars>>

CreateFamily ==
    /\ \E code \in {"F", "G", ""} : create_family(code)
    /\ UNCHANGED <<optVars, userVars, lookupVars>>

CreateNodeWithChildren ==
    /\ \E kind \in NewKinds, level \in NewLevels, parent_id \in Ids(nodes) \cup {NoId},
          source_node_id \in Ids(nodes) \cup {MaxNodes} :
         create_node_with_children(kind[1], level, parent_id, 0, kind[2], NULL, source_node_id)
    /\ UNCHANGED <<optVars, userVars, lookupVars>>

DeleteNode ==
    /\ \E node_id \in Ids(nodes) \cup {MaxNodes} : delete_node(node_id)
    /\ UNCHANGED <<optVars, userVars, lookupVars>>

DeleteFamily ==
    /\ \E family_code \in {"F", "G", "A"} : delete_family(family_code)
    /\ UNCHANGED <<optVars, userVars, lookupVars>>

Next ==
    \/ CreateNode
    \/ CreateFamily
    \/ CreateNodeWithChildren
    \/ DeleteNode
    \/ DeleteFamily

Spec == Init /\ [][Next]_vars

-----------------------------------------------------------------------------
(* User administration: DELETE /api/admin/users/{user_id}                  *)

MaxUsers == 3          \* ids of table users
MaxRequests == 2       \* delete_user requests in flight at the same time

UserIds == 1..MaxUsers
Requests == 1..MaxRequests

UserRow(role) == [role |-> role, is_active |-> TRUE]

\* SELECT COUNT(*) FROM users WHERE role = 'admin'
admin_count(us) == Cardinality({u \in DOMAIN us : us[u].role = "admin"})

\* a plain BEGIN takes no lock: two requests run their checks side by side
begin_deferred(r) ==
    /\ upc[r] = "begin"
    /\ upc' = [upc EXCEPT ![r] = "check"]
    /\ UNCHANGED <<users, ureq, urow, ures, lock>>

\* protections 1 and 2, run before any statement reaches the database
delete_user_start(r, user_id, current_user) ==
    /\ upc[r] = "idle"
    /\ ureq' = [ureq EXCEPT ![r] = [user_id |-> user_id, current_user |-> current_user]]
    /\ UNCHANGED urow
    /\ IF user_id = current_user
       THEN upc' = [upc EXCEPT ![r] = "done"] /\ ures' = [ures EXCEPT ![r] = 400]
       ELSE IF user_id = 1
       THEN upc' = [upc EXCEPT ![r] = "done"] /\ ures' = [ures EXCEPT ![r] = 403]
       ELSE upc' = [upc EXCEPT ![r] = "begin"] /\ ures' = [ures EXCEPT ![r] = 0]
    /\ UNCHANGED <<users, lock>>

\* BEGIN EXCLUSIVE TRANSACTION: granted only while no other connection holds it
begin_exclusive(r) ==
    /\ upc[r] = "begin"
    /\ lock = NoId
    /\ lock' = r
    /\ upc' = [upc EXCEPT ![r] = "check"]
    /\ UNCHANGED <<users, ureq, urow, ures>>

\* BEGIN EXCLUSIVE on a database that stays locked: sqlite3 raises after its
\* busy timeout, the handler answers 500
begin_busy(r) ==
    /\ upc[r] = "begin"
    /\ lock # NoId
    /\ upc' = [upc EXCEPT ![r] = "done"]
    /\ ures' = [ures EXCEPT ![r] = 500]
    /\ UNCHANGED <<users, ureq, urow, lock>>

release(r) == IF lock = r THEN NoId ELSE lock

\* SELECT id, username, role FROM users WHERE id = ?
delete_user_check(r) ==
    /\ upc[r] = "check"
    /\ IF ureq[r].user_id \notin DOMAIN users
       THEN /\ upc' = [upc EXCEPT ![r] = "done"]
            /\ ures' = [ures EXCEPT ![r] = 404]
            /\ lock' = release(r)
            /\ UNCHANGED urow
       ELSE /\ urow' = [urow EXCEPT ![r] = users[ureq[r].user_id].role]
            /\ upc' = [upc EXCEPT ![r] = "guard"]
            /\ UNCHANGED <<ures, lock>>
    /\ UNCHANGED <<users, ureq>>

\* protection 3: an admin is deleted only while another admin is stored
delete_user_guard(r) ==
    /\ upc[r] = "guard"
    /\ IF urow[r] = "admin" /\ admin_count(users) <= 1
       THEN /\ upc' = [upc EXCEPT ![r] = "done"]
            /\ ures' = [ures EXCEPT ![r] = 400]
            /\ lock' = release(r)
       ELSE /\ upc' = [upc EXCEPT ![r] = "delete"]
            /\ UNCHANGED <<ures, lock>>
    /\ UNCHANGED <<users, ureq, urow>>

\* DELETE FROM users WHERE id = ?; commit
delete_user_commit(r) ==
    /\ upc[r] = "delete"
    /\ users' = [u \in DOMAIN users \ {ureq[r].user_id} |-> users[u]]
    /\ upc' = [upc EXCEPT ![r] = "done"]
    /\ ures' = [ures EXCEPT ![r] = 200]
    /\ lock' = release(r)
    /\ UNCHANGED <<ureq, urow>>

\* the response is sent; the worker takes the next request
delete_user_return(r) ==
    /\ upc[r] = "done"
    /\ upc' = [upc EXCEPT ![r] = "idle"]
    /\ ureq' = [ureq EXCEPT ![r] = [user_id |-> NoId, current_user |-> NoId]]
    /\ urow' = [urow EXCEPT ![r] = "none"]
    /\ ures' = [ures EXCEPT ![r] = 0]
    /\ UNCHANGED <<users, lock>>

\* any users table with at least one admin
InitUsers ==
    /\ \E present \in SUBSET UserIds :
         \E roles \in [present -> {"admin", "user"}] :
            /\ \E u \in present : roles[u] = "admin"
            /\ users = [u \in present |-> UserRow(roles[u])]
    /\ upc = [r \in Requests |-> "idle"]
    /\ ureq = [r \in Requests |-> [user_id |-> NoId, current_user |-> NoId]]
    /\ urow = [r \in Requests |-> "none"]
    /\ ures = [r \in Requests |-> 0]
    /\ lock = NoId

\* the tree is not touched while users are administered
InitTreeIdle == nodes = << >> /\ paths = {} /\ seq = 0 /\ last = NoResponse

InitU == InitUsers /\ InitTreeIdle /\ InitOptionsIdle /\ InitLookupIdle

DeleteUserStart ==
    /\ \E r \in Requests, user_id \in UserIds, current_user \in UserIds :
         delete_user_start(r, user_id, current_user)
    /\ UNCHANGED <<treeVars, optVars, lookupVars>>

BeginExclusive ==
    /\ \E r \in Requests : begin_exclusive(r)
    /\ UNCHANGED <<treeVars, optVars, lookupVars>>

BeginBusy ==
    /\ \E r \in Requests : begin_busy(r)
    /\ UNCHANGED <<treeVars, optVars, lookupVars>>

DeleteUserCheck ==
    /\ \E r \in Requests : delete_user_check(r)
    /\ UNCHANGED <<treeVars, optVars, lookupVars>>

DeleteUserGuard ==
    /\ \E r \in Requests : delete_user_guard(r)
    /\ UNCHANGED <<treeVars, optVars, lookupVars>>

DeleteUserCommit ==
    /\ \E r \in Requests : delete_user_commit(r)
    /\ UNCHANGED <<treeVars, optVars, lookupVars>>

DeleteUserReturn ==
    /\ \E r \in Requests : delete_user_return(r)
    /\ UNCHANGED <<treeVars, optVars, lookupVars>>

NextU ==
    \/ DeleteUserStart
    \/ BeginExclusive
    \/ BeginBusy
    \/ DeleteUserCheck
    \/ DeleteUserGuard
    \/ DeleteUserCommit
    \/ DeleteUserReturn

SpecUsers == InitU /\ [][NextU]_vars

-----------------------------------------------------------------------------
(* Specification of the options resolver over imported catalogues *)

InitCatalogue ==
    /\ \E cat \in OptionCatalogues :
         /\ nodes = ImportedNodes(cat)
         /\ paths = build_closure_table(ImportedNodes(cat), Len(cat))
         /\ seq = Len(cat)
    /\ last = NoResponse

InitO == InitCatalogue /\ InitOptionsIdle /\ InitUsersIdle /\ InitLookupIdle

GetAvailableOptions ==
    /\ optReq = NoReq
    /\ \E target_level \in 0..MaxLevel,
          previous_selections \in SeqsUpTo(SelectionPool(nodes), MaxSelections),
          group_filter \in {NULL, "g1"} :
         get_available_options(OptionsRequest(target_level, previous_selections, group_filter))
    /\ UNCHANGED <<treeVars, userVars, lookupVars>>

OptionsReturn ==
    /\ options_return
    /\ UNCHANGED <<treeVars, userVars, lookupVars>>

NextO ==
    \/ GetAvailableOptions
    \/ OptionsReturn

SpecOptions == InitO /\ [][NextO]_vars

-----------------------------------------------------------------------------
(* Specification of updates and deletions over imported catalogues *)

\* the catalogues the editing endpoints are asked about
EditCatalogues == TreeCatalogues \cup OptionCatalogues

InitEdit ==
    /\ \E cat \in EditCatalogues :
         /\ nodes = ImportedNodes(cat)
         /\ paths = build_closure_table(ImportedNodes(cat), Len(cat))
         /\ seq = Len(cat)
    /\ last = NoResponse

InitE == InitEdit /\ InitOptionsIdle /\ InitUsersIdle /\ InitLookupIdle

\* a request sets name, label and label_en or none of them
UpdateNode ==
    /\ \E node_id \in Ids(nodes) \cup {MaxNodes + 1},
          code \in {NULL, "A", "Z"},
          texts \in {<<NULL, NULL, NULL>>, <<"n", "l", "e">>},
          group_name \in {NULL, "g1"} :
         update_node(node_id, code, texts[1], texts[2], texts[3], group_name)
    /\ UNCHANGED <<optVars, userVars, lookupVars>>

EditDeleteNode ==
    /\ \E node_id \in Ids(nodes) : delete_node(node_id)
    /\ UNCHANGED <<optVars, userVars, lookupVars>>

NextE ==
    \/ UpdateNode
    \/ EditDeleteNode

SpecEdit == InitE /\ [][NextE]_vars

-----------------------------------------------------------------------------
(* Typecode normalisation: a text is the sequence of its characters *)

MaxLen == 5            \* length of the texts handed to the normaliser

Whitespace == {" "}
\* the characters \w of the delimiter pattern
WordChars == {"A", "a", "1", "2", "X", "B", "N", "_"}
\* the characters a typecode is typed with
Alphabet == {"A", "a", "1", "-", " ", "_", "*"}

\* str.upper() of one character
upper(c) == IF c = "a" THEN "A" ELSE c

\* the characters of a stored code
Chars(code) ==
    IF code = NULL THEN NoText
    ELSE IF code = "A12" THEN <<"A", "1", "2">>
    ELSE <<code>>

\* number of characters of s from position i on that lie in C
RECURSIVE run(_, _, _)
run(s, i, C) == IF i > Len(s) \/ s[i] \notin C THEN 0 ELSE 1 + run(s, i + 1, C)

\* str.strip()
strip(s) ==
    LET lead == run(s, 1, Whitespace)
        kept == {i \in 1..Len(s) : s[i] \notin Whitespace}
    IN IF kept = {} THEN << >> ELSE SubSeq(s, lead + 1, Max(kept))

\* normalize_token: upper-cased, None when empty
normalize_token(tok) ==
    IF tok = NoText THEN NoText
    ELSE LET t == [i \in 1..Len(tok) |-> upper(tok[i])]
         IN IF t = << >> THEN NoText ELSE t

\* length of the match of r'_{2,}|[-\s]+|(?<=\w)_(?=\w)' that starts at
\* position i of s, 0 when the pattern does not match there
delimiter_pattern(s, i) ==
    IF run(s, i, {"_"}) >= 2 THEN run(s, i, {"_"})
    ELSE IF run(s, i, {"-"} \cup Whitespace) >= 1 THEN run(s, i, {"-"} \cup Whitespace)
    ELSE IF /\ s[i] = "_" /\ i > 1 /\ i < Len(s)
            /\ s[i - 1] \in WordChars /\ s[i + 1] \in WordChars THEN 1
    ELSE 0

\* re.split(delimiter_pattern, s) from position i on, part being the
\* characters read since the last delimiter
RECURSIVE re_split(_, _, _)
re_split(s, i, part) ==
    IF i > Len(s) THEN <<part>>
    ELSE LET m == delimiter_pattern(s, i)
         IN IF m > 0 THEN <<part>> \o re_split(s, i + m, << >>)
            ELSE re_split(s, i + 1, Append(part, s[i]))

\* split_typecode: the normalised non-empty tokens of a typecode
split_typecode(code) ==
    IF code = NoText \/ code = << >> THEN << >>
    ELSE LET code_str == strip(code)
         IN IF code_str = << >> THEN << >>
            ELSE LET parts == re_split(code_str, 1, << >>)
                     normalized == [k \in 1..Len(parts) |-> normalize_token(parts[k])]
                 IN SelectSeq(normalized, LAMBDA t : t # NoText)

\* '-'.join(parts)
RECURSIVE join(_, _)
join(sep, parts) ==
    IF parts = << >> THEN << >>
    ELSE IF Len(parts) = 1 THEN parts[1]
    ELSE parts[1] \o sep \o join(sep, Tail(parts))

\* a reconstruct_typecode that forgets the family token
reconstruct_typecode_of_rest(parts) ==
    IF Len(parts) < 2 THEN NoText ELSE join(<<"-">>, Tail(parts))

\* reconstruct_typecode: 'FAMILY TOK2-TOK3-...', None for fewer than two parts
reconstruct_typecode(parts) ==
    IF Len(parts) < 2 THEN NoText
    ELSE parts[1] \o <<" ">> \o join(<<"-">>, Tail(parts))

\* the normaliser a caller runs on its input, once more on every further call
normalise_call(input) == [op |-> "normalise", input |-> input]

normalise ==
    /\ call.op = "normalise"
    /\ answer = NoAnswer \/ (answer.status = 200 /\ Len(answer.normalized) < 2)
    /\ LET done == IF answer = NoAnswer THEN << >> ELSE answer.normalized
           text == IF done = << >> THEN call.input ELSE done[Len(done)]
       IN answer' = [status |-> 200,
                     normalized |-> Append(done, reconstruct_typecode(split_typecode(text)))]
    /\ UNCHANGED <<constraints, call, adminVars>>

InitNormalise ==
    /\ constraints = {}
    /\ InitAdminIdle
    /\ \E input \in SeqsUpTo(Alphabet, MaxLen) \ {<< >>} : call = normalise_call(input)
    /\ answer = NoAnswer

InitN == InitTreeIdle /\ InitOptionsIdle /\ InitUsersIdle /\ InitNormalise

Normalise ==
    /\ normalise
    /\ UNCHANGED <<treeVars, optVars, userVars>>

NextN ==
    \/ Normalise

SpecNormalise == InitN /\ [][NextN]_vars

-----------------------------------------------------------------------------
(* Typecode lookups: decode_typecode and check_node_code *)

MaxTokens == 4         \* tokens of the typecodes handed to the lookups

Wildcard == <<"*">>

CodePathSegment(level, code, position_start, position_end) ==
    [level |-> level, code |-> code,
     position_start |-> position_start, position_end |-> position_end]

TypecodeDecodeResult(exists, normalized_code, is_complete_product, product_type, path_segments, families) ==
    [status |-> 200, exists |-> exists, normalized_code |-> normalized_code,
     is_complete_product |-> is_complete_product, product_type |-> product_type,
     path_segments |-> path_segments, families |-> families]

\* TypecodeDecodeResult(exists=False, product_type="unknown") with the defaults
DecodeUnknown(normalized_code) ==
    TypecodeDecodeResult(FALSE, normalized_code, FALSE, "unknown", << >>, {})

NodeCheckResult(exists, level, is_complete_product, product_type) ==
    [status |-> 200, exists |-> exists, level |-> level,
     is_complete_product |-> is_complete_product, product_type |-> product_type]

\* NodeCheckResult(exists=False): product_type defaults to "unknown"
CheckUnknown == NodeCheckResult(FALSE, NoPosition, FALSE, "unknown")

\* an unhandled exception of a handler
InternalServerError == [status |-> 500]

\* bool(text): neither None nor empty
truthy(text) == text # NoText /\ text # << >>

\* SELECT ... FROM nodes WHERE code = ? [AND level = 0 [AND parent_id IS NULL]]
nodes_with_code(ns, part) == {n \in Ids(ns) : Chars(ns[n].code) = part}
level0_nodes(ns, part) == {n \in nodes_with_code(ns, part) : ns[n].level = 0}
family_roots(ns, part) == {n \in level0_nodes(ns, part) : ns[n].parent_id = NoId}

\* SELECT DISTINCT family.code ...: the level-0 codes above the nodes
families_of(ns, ps, found) ==
    {ns[a].code : a \in {b \in AncestorIds(ps, found) : ns[b].level = 0 /\ ns[b].code # NULL}}

\* the walk's query when it forgets the level
next_nodes_of_any_level(ns, ps, current_node_id, part, i) ==
    {n \in DescendantIds(ps, {current_node_id}) : Chars(ns[n].code) = part}

\* the walk's query when it reads parent_id instead of the closure table
next_nodes_of_children(ns, ps, current_node_id, part, i) ==
    {n \in Ids(ns) : /\ ns[n].parent_id = current_node_id
                     /\ Chars(ns[n].code) = part /\ ns[n].level = i}

\* the walk's query: WHERE p.ancestor_id = ? AND n.code = ? AND n.level = ?
\* LIMIT 1 returns any one of these rows
next_nodes(ns, ps, current_node_id, part, i) ==
    {n \in DescendantIds(ps, {current_node_id}) :
        Chars(ns[n].code) = part /\ ns[n].level = i}

\* the walk from the family along parts[1:]: every run the LIMIT 1 choices
\* allow, as the nodes found and whether the path exists
RECURSIVE walk(_, _, _, _, _)
walk(ns, ps, found, parts, i) ==
    IF i > Len(parts) - 1 THEN {[found |-> found, path_exists |-> TRUE]}
    ELSE LET next == next_nodes(ns, ps, found[Len(found)], parts[i + 1], i)
         IN IF next = {} THEN {[found |-> found, path_exists |-> FALSE]}
            ELSE UNION {walk(ns, ps, Append(found, n), parts, i + 1) : n \in next}

\* position_start and position_end of the segments of the nodes found
RECURSIVE positions(_, _, _)
positions(ns, found, k) ==
    IF k = 0 THEN << >>
    ELSE LET before == positions(ns, found, k - 1)
             len == Len(Chars(ns[found[k]].code))
         IN IF k = 1 THEN <<[position_start |-> 1, position_end |-> 1 + len,
                             current_position |-> len + 2]>>
            ELSE LET part_start == before[k - 1].current_position
                     part_end == part_start + len
                 IN Append(before, [position_start |-> part_start, position_end |-> part_end,
                                    current_position |-> part_end + 1])

path_segments_of(ns, found) ==
    LET pos == positions(ns, found, Len(found))
    IN [k \in 1..Len(found) |->
          CodePathSegment(ns[found[k]].level, Chars(ns[found[k]].code),
                          pos[k].position_start, pos[k].position_end)]

\* ' '.join(parts[:2]) + '-' + '-'.join(parts[2:])
wildcard_code(parts) ==
    IF Len(parts) = 1 THEN parts[1]
    ELSE IF Len(parts) = 2 THEN parts[1] \o <<" ">> \o parts[2]
    ELSE parts[1] \o <<" ">> \o parts[2] \o <<"-">> \o join(<<"-">>, SubSeq(parts, 3, Len(parts)))

\* the wildcard's query when it reads parent_id instead of the closure table
wildcard_nodes_of_children(ns, ps, current_node_ids, part, level_idx) ==
    {n \in Ids(ns) : /\ ns[n].parent_id \in current_node_ids
                     /\ ns[n].level = level_idx
                     /\ IF part = Wildcard THEN ns[n].code # NULL
                        ELSE Chars(ns[n].code) = part}

\* the queries of decode_with_wildcards: the descendants of the current
\* nodes at the level, all coded ones for '*', those with the code otherwise
wildcard_nodes(ns, ps, current_node_ids, part, level_idx) ==
    {n \in DescendantIds(ps, current_node_ids) :
        /\ ns[n].level = level_idx
        /\ IF part = Wildcard THEN ns[n].code # NULL ELSE Chars(ns[n].code) = part}

\* the loop of decode_with_wildcards from parts[level_idx] on
RECURSIVE wildcard_segments(_, _, _, _, _)
wildcard_segments(ns, ps, current_node_ids, parts, level_idx) ==
    IF level_idx > Len(parts) - 1 \/ current_node_ids = {} THEN << >>
    ELSE LET part == parts[level_idx + 1]
             found == wildcard_nodes(ns, ps, current_node_ids, part, level_idx)
         IN IF found = {} THEN << >>
            ELSE <<CodePathSegment(level_idx, part, NoPosition, NoPosition)>>
                 \o wildcard_segments(ns, ps, found, parts, level_idx + 1)

\* decode_with_wildcards: the answers it may give
decode_with_wildcards(ns, ps, parts) ==
    IF parts = << >> \/ parts[1] = Wildcard THEN {DecodeUnknown(NoText)}
    ELSE IF family_roots(ns, parts[1]) = {} THEN {DecodeUnknown(NoText)}
    ELSE {LET path_segments ==
                <<CodePathSegment(0, Chars(ns[family].code), NoPosition, NoPosition)>>
                \o wildcard_segments(ns, ps, {family}, parts, 1)
          IN TypecodeDecodeResult(Len(path_segments) > 1, wildcard_code(parts), FALSE,
                                  "wildcard_search", path_segments, {parts[1]})
          : family \in family_roots(ns, parts[1])}

\* decode_typecode for a single code
decode_single(ns, ps, part) ==
    LET all_nodes == nodes_with_code(ns, part)
    IN IF all_nodes = {} THEN {DecodeUnknown(NoText)}
       ELSE IF Cardinality(all_nodes) # 1 THEN {InternalServerError}
       ELSE LET first_node == CHOOSE n \in all_nodes : TRUE
                position == ns[first_node].position
                ends == IF position # 0 THEN position + Len(part) ELSE NoPosition
            IN {TypecodeDecodeResult(TRUE, part, FALSE,
                    IF ns[first_node].level = 0 THEN "product_family" ELSE "level_code",
                    <<CodePathSegment(ns[first_node].level, part, position, ends)>>,
                    {Chars(c) : c \in families_of(ns, ps, all_nodes)})}

\* decode_typecode for two or more parts without wildcard
decode_path(ns, ps, parts) ==
    LET normalized_full == reconstruct_typecode(parts)
    IN IF level0_nodes(ns, parts[1]) = {} THEN {DecodeUnknown(NoText)}
       ELSE UNION {
              {IF ~w.path_exists THEN DecodeUnknown(normalized_full)
               ELSE LET final_node == w.found[Len(w.found)]
                        is_complete_product == truthy(ns[final_node].full_typecode)
                    IN TypecodeDecodeResult(TRUE, normalized_full, is_complete_product,
                           IF is_complete_product THEN "complete_product" ELSE "partial_code",
                           path_segments_of(ns, w.found), {parts[1]})
               : w \in walk(ns, ps, <<family_node>>, parts, 1)}
              : family_node \in level0_nodes(ns, parts[1])}

\* GET /api/nodes/decode/{code}: the answers the handler may give
decode_typecode(ns, ps, code) ==
    LET parts == split_typecode(code)
        has_wildcards == \E k \in 1..Len(parts) : parts[k] = Wildcard
    IN IF parts = << >> THEN {DecodeUnknown(NoText)}
       ELSE IF has_wildcards /\ Len(parts) > 1 THEN decode_with_wildcards(ns, ps, parts)
       ELSE IF Len(parts) = 1 THEN decode_single(ns, ps, parts[1])
       ELSE decode_path(ns, ps, parts)

\* check_node_code for a single code
check_single(ns, part) ==
    IF family_roots(ns, part) # {} THEN {NodeCheckResult(TRUE, 0, FALSE, "product_family")}
    ELSE LET found == nodes_with_code(ns, part)
             first == {n \in found : \A o \in found : ns[n].level <= ns[o].level}
         IN IF found = {} THEN {CheckUnknown}
            ELSE {NodeCheckResult(TRUE, ns[n].level, FALSE,
                      IF ns[n].level = 0 THEN "product_family" ELSE "level_code")
                  : n \in first}

\* check_node_code for two or more parts without wildcard: the exact match
\* against full_typecode, then the walk
check_path(ns, ps, parts) ==
    LET normalized_full == reconstruct_typecode(parts)
        exact == {n \in Ids(ns) : ns[n].full_typecode = normalized_full}
    IN IF ~truthy(normalized_full) THEN {CheckUnknown}
       ELSE IF exact # {}
         THEN {NodeCheckResult(TRUE, ns[n].level, TRUE, "complete_product") : n \in exact}
       ELSE IF family_roots(ns, parts[1]) = {} THEN {CheckUnknown}
       ELSE UNION {
              {IF ~w.path_exists THEN CheckUnknown
               ELSE LET node == w.found[Len(w.found)]
                        complete == truthy(ns[node].full_typecode)
                    IN NodeCheckResult(TRUE, ns[node].level, complete,
                           IF complete THEN "complete_product" ELSE "partial_code")
               : w \in walk(ns, ps, <<family_node>>, parts, 1)}
              : family_node \in family_roots(ns, parts[1])}

\* GET /api/nodes/check/{code} for a code without wildcard (codes with a
\* wildcard go to search_with_wildcards): the answers the handler may give
check_node_code(ns, ps, code) ==
    LET parts == split_typecode(code)
    IN IF parts = << >> THEN {CheckUnknown}
       ELSE IF Len(parts) = 1 THEN check_single(ns, parts[1])
       ELSE check_path(ns, ps, parts)

lookup_call(op, code) == [op |-> op, code |-> code]

\* the handler of the call runs and returns
lookup_return ==
    /\ call.op \in {"decode", "check"}
    /\ answer = NoAnswer
    /\ \E result \in IF call.op = "decode" THEN decode_typecode(nodes, paths, call.code)
                     ELSE check_node_code(nodes, paths, call.code) :
         answer' = result
    /\ UNCHANGED <<constraints, call, adminVars>>

\* A > (3) > A12 > X and A > B > X: products below a pattern container,
\* an intermediate product and a code used twice in the family
CatalogueProducts ==
    << <<"A", 0, 0, NoPattern, NULL>>,
       <<NULL, 1, 0, 3, NULL>>,
       <<"A12", 2, 1, NoPattern, "g1">>,
       <<"X", 3, 1, NoPattern, "g1", <<"A", " ", "A", "1", "2", "-", "X">> >>,
       <<"B", 1, 2, NoPattern, "g2", <<"A", " ", "B">> >>,
       <<"X", 5, 1, NoPattern, "g2", <<"A", " ", "B", "-", "X">> >> >>

\* A > A12 > B > X and A > A12 > (1) > X: two level-2 codes below A12, one of
\* them in a pattern container, and a level-3 product
CatalogueDeep ==
    << <<"A", 0, 0, NoPattern, NULL>>,
       <<"A12", 1, 1, NoPattern, NULL>>,
       <<"B", 2, 1, NoPattern, NULL>>,
       <<NULL, 2, 2, 1, NULL>>,
       <<"X", 4, 1, NoPattern, NULL, <<"A", " ", "A", "1", "2", "-", "X">> >>,
       <<"X", 3, 1, NoPattern, NULL, <<"A", " ", "A", "1", "2", "-", "B", "-", "X">> >> >>

\* the families A and B with the same code below them
CatalogueTwoFamilies ==
    << <<"A", 0, 0, NoPattern, NULL>>,
       <<"B", 0, 1, NoPattern, NULL>>,
       <<"X", 1, 1, NoPattern, NULL, <<"A", " ", "X">> >>,
       <<"X", 2, 1, NoPattern, NULL, <<"B", " ", "X">> >>,
       <<"A12", 3, 1, NoPattern, NULL, <<"A", " ", "X", "-", "A", "1", "2">> >>,
       <<"N", 4, 0, NoPattern, NULL>> >>

\* the catalogues the lookups are asked about
LookupCatalogues == {CatalogueProducts, CatalogueDeep, CatalogueTwoFamilies}

\* the tokens a typecode is typed with
Tokens == {<<"A">>, <<"a", "1", "2">>, <<"A", "1", "2">>, <<"B">>, <<"X">>, <<"N">>, Wildcard}

\* the ways the tokens are separated: canonically, by spaces, by underscores
Styles == {<<" ", "-">>, <<" ", " ">>, <<"_", "_">>}

\* the tokens as one text, the first separator after the family token
typed(tokens, style) ==
    IF Len(tokens) = 1 THEN tokens[1]
    ELSE tokens[1] \o <<style[1]>> \o join(<<style[2]>>, Tail(tokens))

InitLookup ==
    /\ \E cat \in LookupCatalogues :
         /\ nodes = ImportedNodes(cat)
         /\ paths = build_closure_table(ImportedNodes(cat), Len(cat))
         /\ seq = Len(cat)
    /\ last = NoResponse
    /\ constraints = {}
    /\ InitAdminIdle
    /\ \E tokens \in SeqsUpTo(Tokens, MaxTokens) \ {<< >>}, style \in Styles,
          op \in {"decode", "check"} :
         /\ op = "check" => \A k \in 1..Len(tokens) : tokens[k] # Wildcard
         /\ call = lookup_call(op, typed(tokens, style))
    /\ answer = NoAnswer

InitL == InitLookup /\ InitOptionsIdle /\ InitUsersIdle

LookupReturn ==
    /\ lookup_return
    /\ UNCHANGED <<treeVars, optVars, userVars>>

NextL ==
    \/ LookupReturn

SpecLookup == InitL /\ [][NextL]_vars

-----------------------------------------------------------------------------
(* Constraints: expand_code_range and validate_code_against_constraints *)

MaxConditions == 2     \* conditions of one constraint

DigitChars == <<"0", "1", "2", "3", "4", "5", "6", "7", "8", "9">>
LetterChars == <<"A", "B", "C", "D", "E", "F", "G", "H", "I", "J", "K", "L", "M",
                 "N", "O", "P", "Q", "R", "S", "T", "U", "V", "W", "X", "Y", "Z">>

\* chars = '0123456789ABCDEFGHIJKLMNOPQRSTUVWXYZ'
chars == DigitChars \o LetterChars

Range(s) == {s[i] : i \in DOMAIN s}

\* chars.index(c), 0 for the ValueError
index(s, c) == IF c \in Range(s) THEN CHOOSE i \in DOMAIN s : s[i] = c ELSE 0

\* str.isdigit() and str.isalpha()
isdigit(s) == s # << >> /\ \A i \in DOMAIN s : s[i] \in Range(DigitChars)
isalpha(s) == s # << >> /\ \A i \in DOMAIN s : upper(s[i]) \in Range(LetterChars)

\* ord(c) of the characters in use
ord(c) ==
    IF c \in Range(DigitChars) THEN 47 + index(DigitChars, c)
    ELSE IF c \in Range(LetterChars) THEN 64 + index(LetterChars, c)
    ELSE IF c = "a" THEN 97
    ELSE IF c = "_" THEN 95
    ELSE IF c = "-" THEN 45
    ELSE IF c = "*" THEN 42
    ELSE 32

\* Python's <= on two texts
RECURSIVE text_leq(_, _)
text_leq(a, b) ==
    IF a = << >> THEN TRUE
    ELSE IF b = << >> THEN FALSE
    ELSE IF Head(a) # Head(b) THEN ord(Head(a)) < ord(Head(b))
    ELSE text_leq(Tail(a), Tail(b))

\* int(s) of a text of digits
RECURSIVE int(_)
int(s) ==
    IF s = << >> THEN 0
    ELSE 10 * int(SubSeq(s, 1, Len(s) - 1)) + (index(DigitChars, s[Len(s)]) - 1)

\* str(num) without the padding
zfill_without_padding(num, width) ==
    LET digits == decimal_digits(num)
    IN [i \in 1..Len(digits) |-> DigitChars[digits[i] + 1]]

\* str(num).zfill(width)
zfill(num, width) ==
    LET digits == decimal_digits(num)
        text == [i \in 1..Len(digits) |-> DigitChars[digits[i] + 1]]
    IN IF Len(text) >= width THEN text
       ELSE [i \in 1..(width - Len(text)) |-> "0"] \o text

\* the common prefix of start_str and end_str up to the first digit
RECURSIVE common_prefix(_, _, _)
common_prefix(start_str, end_str, i) ==
    IF /\ i + 1 <= Len(start_str) /\ i + 1 <= Len(end_str)
       /\ start_str[i + 1] = end_str[i + 1]
       /\ ~isdigit(<<start_str[i + 1]>>)
    THEN common_prefix(start_str, end_str, i + 1)
    ELSE SubSeq(start_str, 1, i)

\* the two-character codes over chars in loop order
two_char_codes == [k \in 1..(Len(chars) * Len(chars)) |->
                     <<chars[((k - 1) \div Len(chars)) + 1], chars[((k - 1) % Len(chars)) + 1]>>]

\* the loops stop once more than 1000 codes are collected
limited(codes) == IF Len(codes) > 1000 THEN SubSeq(codes, 1, 1001) ELSE codes

upper_text(s) == [i \in DOMAIN s |-> upper(s[i])]

\* expand_code_range: the codes of 'START-END', the text itself without '-'
expand_code_range(range_str) ==
    IF "-" \notin Range(range_str) THEN <<range_str>>
    ELSE LET dash == Min({i \in DOMAIN range_str : range_str[i] = "-"})
             start_str == SubSeq(range_str, 1, dash - 1)
             end_str == SubSeq(range_str, dash + 1, Len(range_str))
             prefix == common_prefix(start_str, end_str, 0)
             start_suffix == SubSeq(start_str, Len(prefix) + 1, Len(start_str))
             end_suffix == SubSeq(end_str, Len(prefix) + 1, Len(end_str))
             fallback == <<start_str, end_str>>
             from_chars(a, b) == [k \in 1..(b - a + 1) |-> prefix \o <<chars[a + k - 1]>>]
             codes ==
               IF isdigit(start_suffix) /\ isdigit(end_suffix)
                 THEN [k \in 1..(int(end_suffix) - int(start_suffix) + 1) |->
                         prefix \o zfill(int(start_suffix) + k - 1, Len(start_suffix))]
               ELSE IF /\ Len(start_suffix) = 1 /\ Len(end_suffix) = 1
                       /\ isalpha(start_suffix) /\ isalpha(end_suffix)
                 THEN from_chars(index(chars, upper(start_suffix[1])),
                                 index(chars, upper(end_suffix[1])))
               ELSE IF Len(start_suffix) = 1 /\ Len(end_suffix) = 1
                 THEN IF index(chars, upper(start_suffix[1])) = 0
                         \/ index(chars, upper(end_suffix[1])) = 0
                      THEN fallback
                      ELSE from_chars(index(chars, upper(start_suffix[1])),
                                      index(chars, upper(end_suffix[1])))
               ELSE IF Len(start_suffix) <= 2 /\ Len(end_suffix) <= 2
                 THEN IF Len(start_suffix) = 1 /\ Len(end_suffix) = 2
                        THEN limited(from_chars(index(chars, upper(start_suffix[1])), Len(chars))
                               \o [k \in DOMAIN SelectSeq(two_char_codes,
                                         LAMBDA c : text_leq(c, upper_text(end_suffix))) |->
                                     prefix \o SelectSeq(two_char_codes,
                                         LAMBDA c : text_leq(c, upper_text(end_suffix)))[k]])
                      ELSE IF Len(start_suffix) = 2 /\ Len(end_suffix) = 2
                        THEN limited([k \in DOMAIN SelectSeq(two_char_codes,
                                         LAMBDA c : /\ text_leq(upper_text(start_suffix), c)
                                                    /\ text_leq(c, upper_text(end_suffix))) |->
                                     prefix \o SelectSeq(two_char_codes,
                                         LAMBDA c : /\ text_leq(upper_text(start_suffix), c)
                                                    /\ text_leq(c, upper_text(end_suffix)))[k]])
                      ELSE << >>
               ELSE fallback
         IN IF /\ Len(start_suffix) = 1 /\ Len(end_suffix) = 2
               /\ ~(isdigit(start_suffix) /\ isdigit(end_suffix))
               /\ index(chars, upper(start_suffix[1])) = 0
            THEN <<range_str>>
            ELSE IF codes = << >> THEN fallback ELSE codes

\* check_pattern_match: the code length against '5' or '4-6'
check_pattern_match(code_length, pattern_value) ==
    IF "-" \in Range(pattern_value)
    THEN LET dash == Min({i \in DOMAIN pattern_value : pattern_value[i] = "-"})
             min_len == SubSeq(pattern_value, 1, dash - 1)
             max_len == SubSeq(pattern_value, dash + 1, Len(pattern_value))
         IN /\ isdigit(min_len) /\ isdigit(max_len)
            /\ int(min_len) <= code_length /\ code_length <= int(max_len)
    ELSE isdigit(pattern_value) /\ code_length = int(pattern_value)

ConstraintCondition(condition_type, target_level, value) ==
    [condition_type |-> condition_type, target_level |-> target_level, value |-> value]

ConstraintCode(code_type, code_value) == [code_type |-> code_type, code_value |-> code_value]

\* a row of table constraints with its rows of constraint_conditions and
\* constraint_codes
Constraint(id, level, mode, conditions, codes) ==
    [id |-> id, level |-> level, mode |-> mode, conditions |-> conditions, codes |-> codes]

\* str.startswith
startswith(text, value) ==
    Len(value) <= Len(text) /\ SubSeq(text, 1, Len(value)) = value

\* a condition loop that lets a condition pass when its target level is
\* not selected
condition_met_or_missing(cond, previous_selections) ==
    LET target_code == previous_selections[cond.target_level]
    IN cond.target_level \in DOMAIN previous_selections
       => /\ cond.condition_type = "exact_code" => target_code = cond.value
          /\ cond.condition_type = "prefix" => startswith(target_code, cond.value)
          /\ cond.condition_type = "pattern"
               => check_pattern_match(Len(target_code), cond.value)

\* one pass of the condition loop: the condition does not clear
\* all_conditions_met; a target level without selection clears it
condition_met(cond, previous_selections) ==
    LET target_code == previous_selections[cond.target_level]
    IN /\ cond.target_level \in DOMAIN previous_selections
       /\ cond.condition_type = "exact_code" => target_code = cond.value
       /\ cond.condition_type = "prefix" => startswith(target_code, cond.value)
       /\ cond.condition_type = "pattern" => check_pattern_match(Len(target_code), cond.value)

all_conditions_met(constraint, previous_selections) ==
    \A cond \in constraint.conditions : condition_met(cond, previous_selections)

\* all_codes: the single codes and the expanded ranges
all_codes(constraint) ==
    UNION {IF c.code_type = "single" THEN {c.code_value}
           ELSE IF c.code_type = "range" THEN Range(expand_code_range(c.code_value))
           ELSE {} : c \in constraint.codes}

\* validate_code_against_constraints
validate_code_against_constraints(code, level, previous_selections, rows) ==
    LET violated ==
          {c \in {r \in rows : r.level = level} :
              /\ all_conditions_met(c, previous_selections)
              /\ \/ c.mode = "allow" /\ code \notin all_codes(c)
                 \/ c.mode = "deny" /\ code \in all_codes(c)}
    IN [status |-> 200, is_valid |-> violated = {},
        violated_constraints |-> {c.id : c \in violated}]

validate_call(code, level, previous_selections) ==
    [op |-> "validate", code |-> code, level |-> level,
     previous_selections |-> previous_selections]

\* POST /api/constraints/validate
validate_code ==
    /\ call.op = "validate"
    /\ answer = NoAnswer
    /\ answer' = validate_code_against_constraints(call.code, call.level,
                                                   call.previous_selections, constraints)
    /\ UNCHANGED <<constraints, call, adminVars>>

M313 == <<"M", "3", "1", "3">>
X999 == <<"X", "9", "9", "9">>
C015 == <<"C", "0", "1", "5">>
C021 == <<"C", "0", "2", "1">>
C010toC020 == <<"C", "0", "1", "0", "-", "C", "0", "2", "0">>

\* the conditions a constraint is built from
ConditionPool ==
    {ConstraintCondition("prefix", 1, <<"M">>),
     ConstraintCondition("exact_code", 1, M313),
     ConstraintCondition("pattern", 1, <<"2", "-", "3">>),
     ConstraintCondition("pattern", 2, <<"2">>),
     ConstraintCondition("exact_code", 2, <<"A", "B">>)}

\* the code lists a constraint is built from
CodeListPool ==
    {{ConstraintCode("range", C010toC020)},
     {ConstraintCode("single", C015)},
     {ConstraintCode("single", X999), ConstraintCode("range", <<"A", "-", "C">>)}}

ConstraintPool(id) ==
    {Constraint(id, level, mode, conditions, codes) :
        level \in {2, 3}, mode \in {"allow", "deny"},
        conditions \in {S \in SUBSET ConditionPool : Cardinality(S) <= MaxConditions},
        codes \in CodeListPool}

\* a second constraint of the table
SecondConstraints ==
    {Constraint(2, 3, "deny", {ConstraintCondition("prefix", 1, <<"M">>)},
                {ConstraintCode("single", C015)}),
     Constraint(2, 3, "allow", {}, {ConstraintCode("range", C010toC020)})}

\* the selection maps of the requests: level 1 and level 2 selected or not
SelectionMaps ==
    UNION {[levels -> {M313, <<"M", "3">>, <<"A", "B">>}] : levels \in SUBSET {1, 2}}

InitConstraints ==
    /\ \E first \in ConstraintPool(1) :
         \E second \in {{}} \cup {{c} : c \in SecondConstraints} :
            constraints = {first} \cup second
    /\ \E code \in {X999, C015, C021, <<"B">>}, level \in {2, 3},
          previous_selections \in SelectionMaps :
         call = validate_call(code, level, previous_selections)
    /\ answer = NoAnswer

InitC == InitTreeIdle /\ InitOptionsIdle /\ InitUsersIdle /\ InitConstraints /\ InitAdminIdle

ValidateCode ==
    /\ validate_code
    /\ UNCHANGED <<treeVars, optVars, userVars>>

NextC ==
    \/ ValidateCode

SpecConstraints == InitC /\ [][NextC]_vars

-----------------------------------------------------------------------------
(* Specification of expand_code_range over typed ranges *)

MaxWidth == 3          \* digits of the numeric suffixes of a range

PS == <<"P", "S">>

\* the prefixes, numeric suffixes and letters the ranges are typed with
RangePrefixes == {<< >>, PS}
RangeNumbers ==
    (SeqsUpTo({"0", "1"}, MaxWidth) \ {<< >>}) \cup {<<"0", "0", "3">>, <<"9">>}
RangeLetters == {<<"A">>, <<"B">>, <<"D">>, <<"a">>}

\* 'START-END' with the same prefix on both sides, and texts without '-'
RangePool ==
    {prefix \o s \o <<"-">> \o prefix \o e :
        prefix \in RangePrefixes, s \in RangeNumbers, e \in RangeNumbers}
    \cup {prefix \o s \o <<"-">> \o prefix \o e :
            prefix \in RangePrefixes, s \in RangeLetters, e \in RangeLetters}
    \cup {<< >>, <<"A">>, PS \o <<"0", "0", "1">>}

expand_call(range_str) == [op |-> "expand", range_str |-> range_str]

\* the expansion of one code_value of type 'range'
expand ==
    /\ call.op = "expand"
    /\ answer = NoAnswer
    /\ answer' = [status |-> 200, codes |-> expand_code_range(call.range_str)]
    /\ UNCHANGED <<constraints, call, adminVars>>

InitRanges ==
    /\ constraints = {}
    /\ InitAdminIdle
    /\ \E range_str \in RangePool : call = expand_call(range_str)
    /\ answer = NoAnswer

InitR == InitTreeIdle /\ InitOptionsIdle /\ InitUsersIdle /\ InitRanges

Expand ==
    /\ expand
    /\ UNCHANGED <<treeVars, optVars, userVars>>

NextR ==
    \/ Expand

SpecRanges == InitR /\ [][NextR]_vars

-----------------------------------------------------------------------------
(* Derived group name *)

DerivedGroupNameResponse(group_name, is_unique, possible_group_names) ==
    [status |-> 200, group_name |-> group_name, is_unique |-> is_unique,
     possible_group_names |-> possible_group_names]

NoDerivedGroup == DerivedGroupNameResponse(NULL, FALSE, {})

\* the leaves of the family with a group_name, whatever was selected
leaf_nodes(ns, ps, root) ==
    {n \in DescendantIds(ps, {root}) :
        /\ \A c \in Ids(ns) : ns[c].parent_id # n
        /\ ns[n].group_name # NULL}

\* a filter that keeps every leaf, whatever was selected
compatible_leaf_ids_of_family(ps, previous_selections, i, compatible) == compatible

\* the leaves left after the selections from the i-th on, each selection
\* keeping the descendants of its ids; {} as soon as no leaf is left
RECURSIVE compatible_leaf_ids(_, _, _, _)
compatible_leaf_ids(ps, previous_selections, i, compatible) ==
    IF i > Len(previous_selections) THEN compatible
    ELSE IF previous_selections[i].level = 0 \/ sel_ids(previous_selections[i]) = {}
         THEN compatible_leaf_ids(ps, previous_selections, i + 1, compatible)
    ELSE LET kept == DescendantIds(ps, sel_ids(previous_selections[i])) \cap compatible
         IN IF kept = {} THEN {}
            ELSE compatible_leaf_ids(ps, previous_selections, i + 1, kept)

\* the possible answers of POST /api/derived-group-name: one for every row the
\* scalar subquery for the family may yield; possible_group_names is a sorted
\* list without duplicates, kept as the set of its entries
get_derived_group_name(ns, ps, previous_selections) ==
    LET family == root_family(previous_selections, 1)
        roots  == {r \in Ids(ns) : ns[r].code = family /\ ns[r].level = 0}
        result(root) ==
            LET leaves     == leaf_nodes(ns, ps, root)
                compatible == compatible_leaf_ids(ps, previous_selections, 1, leaves)
                names      == {ns[n].group_name : n \in compatible}
            IN IF leaves = {} \/ compatible = {} THEN NoDerivedGroup
               ELSE IF Cardinality(names) = 1
                    THEN DerivedGroupNameResponse(CHOOSE g \in names : TRUE, TRUE, names)
               ELSE DerivedGroupNameResponse(NULL, FALSE, names)
    IN IF family = NULL \/ family = "" \/ roots = {} THEN {NoDerivedGroup}
       ELSE {result(root) : root \in roots}

group_call(previous_selections) ==
    [op |-> "group", previous_selections |-> previous_selections]

derived_group_name ==
    /\ call.op = "group"
    /\ answer = NoAnswer
    /\ answer' \in get_derived_group_name(nodes, paths, call.previous_selections)
    /\ UNCHANGED <<constraints, call, adminVars>>

-----------------------------------------------------------------------------
(* Specification of the derived group name over imported catalogues *)

InitGroup ==
    /\ constraints = {}
    /\ InitAdminIdle
    /\ \E previous_selections \in SeqsUpTo(SelectionPool(nodes), MaxSelections) :
         call = group_call(previous_selections)
    /\ answer = NoAnswer

InitG == InitCatalogue /\ InitOptionsIdle /\ InitUsersIdle /\ InitGroup

DerivedGroupName ==
    /\ derived_group_name
    /\ UNCHANGED <<treeVars, optVars, userVars>>

NextG ==
    \/ DerivedGroupName

SpecGroup == InitG /\ [][NextG]_vars

-----------------------------------------------------------------------------
(* Successors *)

MaxSuccessors == 2     \* rows of table product_successors

\* dates as day numbers; NoDate stands for NULL, Today for date('now')
NoDate == 0
Today == 2
Yesterday == Today - 1
Tomorrow == Today + 1

Severities == {"info", "warning", "critical"}

Successor(id, source, target, effective_date, show_warning, severity, created_at) ==
    [id |-> id, source_node_id |-> source, target_node_id |-> target,
     effective_date |-> effective_date, show_warning |-> show_warning,
     warning_severity |-> severity, created_at |-> created_at]

NoSuccessor == [status |-> 200, has_successor |-> FALSE]

SuccessorInfo(row) ==
    [status |-> 200, has_successor |-> TRUE, id |-> row.id,
     source_node_id |-> row.source_node_id, target_node_id |-> row.target_node_id,
     warning_severity |-> row.warning_severity]

\* WHERE source_node_id IN (...) AND show_warning = 1
\*   AND (effective_date IS NULL OR effective_date <= date('now'))
active_successors(rows, node_ids) ==
    {r \in rows :
        /\ r.source_node_id \in node_ids
        /\ r.show_warning
        /\ r.effective_date = NoDate \/ r.effective_date <= Today}

\* the place of a severity among the texts in ascending (binary) order
text_order(severity) ==
    CASE severity = "critical" -> 1
      [] severity = "info" -> 2
      [] severity = "warning" -> 3

\* CASE warning_severity WHEN 'critical' THEN 1 WHEN 'warning' THEN 2 ELSE 3 END
severity_case(severity) ==
    CASE severity = "critical" -> 1
      [] severity = "warning" -> 2
      [] OTHER -> 3

\* ORDER BY warning_severity DESC, created_at DESC LIMIT 1: the rows that may come first
first_by_text(rows) ==
    {r \in rows : \A o \in rows :
        \/ text_order(o.warning_severity) < text_order(r.warning_severity)
        \/ /\ o.warning_severity = r.warning_severity
           /\ o.created_at <= r.created_at}

\* ORDER BY CASE ... END, created_at DESC LIMIT 1: the rows that may come first
first_by_case(rows) ==
    {r \in rows : \A o \in rows :
        \/ severity_case(o.warning_severity) > severity_case(r.warning_severity)
        \/ /\ severity_case(o.warning_severity) = severity_case(r.warning_severity)
           /\ o.created_at <= r.created_at}

\* GET /api/node/{node_id}/successor: the possible answers
get_node_successor(rows, node_id) ==
    LET active == active_successors(rows, {node_id})
    IN IF active = {} THEN {NoSuccessor}
       ELSE {SuccessorInfo(r) : r \in first_by_text(active)}

\* the ids the request names: the ids of its selections and one node whose
\* full_typecode or code is the product code
product_node_ids(ns, request) ==
    LET selected == Range(request.selections)
        leaves   == IF request.code = NoText THEN {}
                    ELSE {n \in Ids(ns) : \/ ns[n].full_typecode = request.code
                                          \/ /\ ns[n].code # NULL
                                             /\ Chars(ns[n].code) = request.code}
    IN IF leaves = {} THEN {selected} ELSE {selected \cup {leaf} : leaf \in leaves}

\* POST /api/product/successor: the possible answers
get_product_successor(ns, rows, request) ==
    IF request.code = NoText /\ request.selections = << >> THEN {[status |-> 400]}
    ELSE UNION {LET active == {r \in active_successors(rows, node_ids) :
                                  r.source_node_id \in Ids(ns)}
                IN IF node_ids = {} \/ active = {} THEN {NoSuccessor}
                   ELSE {SuccessorInfo(r) : r \in first_by_case(active)}
                : node_ids \in product_node_ids(ns, request)}

\* cursor.lastrowid of the next INSERT INTO product_successors
next_successor_id(rows) == IF rows = {} THEN 1 ELSE Max({r.id : r \in rows}) + 1

\* the creation times an INSERT may stamp: the latest one stored or a later one
creation_times(rows) ==
    IF rows = {} THEN {1}
    ELSE LET latest == Max({r.created_at : r \in rows}) IN {latest, latest + 1}

CreateSuccessorRequest(source, target, target_full_code, effective_date, show_warning, severity) ==
    [op |-> "create_successor", source_node_id |-> source, target_node_id |-> target,
     target_full_code |-> target_full_code, effective_date |-> effective_date,
     show_warning |-> show_warning, warning_severity |-> severity]

\* POST /api/admin/successors: the response and the table after commit
create_successor(ns, rows, request, created_at) ==
    IF request.source_node_id \notin Ids(ns) THEN [status |-> 404, rows |-> rows]
    ELSE IF request.target_node_id # NoId /\ request.target_node_id \notin Ids(ns)
         THEN [status |-> 404, rows |-> rows]
    ELSE IF request.target_node_id = NoId /\ request.target_full_code = NoText
         THEN [status |-> 400, rows |-> rows]
    ELSE [status |-> 200, id |-> next_successor_id(rows),
          rows |-> rows \cup {Successor(next_successor_id(rows), request.source_node_id,
                                        request.target_node_id, request.effective_date,
                                        request.show_warning, request.warning_severity,
                                        created_at)}]

CreateSuccessorBulkRequest(source_node_ids, target_node_ids) ==
    [op |-> "create_successor_bulk", source_node_ids |-> source_node_ids,
     target_node_ids |-> target_node_ids]

\* SELECT ... FROM nodes WHERE id IN (...) ORDER BY id
RECURSIVE ordered(_)
ordered(S) == IF S = {} THEN << >> ELSE <<Min(S)>> \o ordered(S \ {Min(S)})

\* a check that finds no link, whatever is stored
link_never_exists(rows, pair) == FALSE

\* SELECT id FROM product_successors WHERE source_node_id = ? AND target_node_id = ?
link_exists(rows, pair) ==
    \E r \in rows : r.source_node_id = pair[1] /\ r.target_node_id = pair[2]

\* the loop over the pairs: a pair with a link is skipped, every other pair
\* gets a row with the hard-coded settings and the severity of the mode
RECURSIVE insert_links(_, _, _, _, _)
insert_links(rows, pairs, i, severity, created_at) ==
    IF i > Len(pairs) THEN rows
    ELSE IF link_exists(rows, pairs[i])
         THEN insert_links(rows, pairs, i + 1, severity, created_at)
    ELSE insert_links(
            rows \cup {Successor(next_successor_id(rows), pairs[i][1], pairs[i][2],
                                 NoDate, TRUE, severity, created_at)},
            pairs, i + 1, severity, created_at)

\* zip(source_nodes, target_nodes)
zip(sources, targets) ==
    [i \in 1..Min({Len(sources), Len(targets)}) |-> <<sources[i], targets[i]>>]

\* for source_node in source_nodes: for target_node in target_nodes
product(sources, targets) ==
    [k \in 1..(Len(sources) * Len(targets)) |->
        <<sources[((k - 1) \div Len(targets)) + 1], targets[((k - 1) % Len(targets)) + 1]>>]

\* POST /api/admin/successors/bulk: the response and the table after commit
create_successor_bulk(ns, rows, request, created_at) ==
    LET source_nodes == ordered(Range(request.source_node_ids) \cap Ids(ns))
        target_nodes == ordered(Range(request.target_node_ids) \cap Ids(ns))
        all_complete(ids) == \A k \in 1..Len(ids) : ns[ids[k]].full_typecode # NoText
    IN IF request.source_node_ids = << >> THEN [status |-> 400, rows |-> rows]
       ELSE IF Len(source_nodes) # Len(request.source_node_ids)
            THEN [status |-> 404, rows |-> rows]
       ELSE IF request.target_node_ids = << >> THEN [status |-> 400, rows |-> rows]
       ELSE IF Len(target_nodes) # Len(request.target_node_ids)
            THEN [status |-> 404, rows |-> rows]
       ELSE IF /\ all_complete(source_nodes) /\ all_complete(target_nodes)
               /\ Len(source_nodes) = Len(target_nodes)
            THEN LET after == insert_links(rows, zip(source_nodes, target_nodes), 1,
                                           "warning", created_at)
                 IN [status |-> 200, type |-> "links", rows |-> after,
                     created_count |-> Cardinality(after) - Cardinality(rows)]
       ELSE LET after == insert_links(rows, product(source_nodes, target_nodes), 1,
                                      "info", created_at)
            IN [status |-> 200, type |-> "hint", rows |-> after,
                created_count |-> Cardinality(after) - Cardinality(rows)]

\* the part of a mutator's result the caller sees
response_of(result) == [f \in DOMAIN result \ {"rows"} |-> result[f]]

-----------------------------------------------------------------------------
(* Specification of the successor endpoints over an imported catalogue *)

\* an id that no row of the catalogue has
MissingNode == MaxNodes + 3

\* the requests of create_successor: every severity for a visible successor
\* 4 -> 5, a critical successor that is hidden, not yet effective or effective
\* since yesterday, a successor named by its code, and the refused requests
CreateSuccessorRequests ==
    {CreateSuccessorRequest(4, 5, NoText, NoDate, TRUE, severity) : severity \in Severities}
    \cup {CreateSuccessorRequest(4, 5, NoText, NoDate, FALSE, "critical"),
          CreateSuccessorRequest(4, 5, NoText, Tomorrow, TRUE, "critical"),
          CreateSuccessorRequest(4, 5, NoText, Yesterday, TRUE, "critical"),
          CreateSuccessorRequest(4, NoId, <<"T">>, NoDate, TRUE, "info"),
          CreateSuccessorRequest(4, NoId, NoText, NoDate, TRUE, "info"),
          CreateSuccessorRequest(MissingNode, 5, NoText, NoDate, TRUE, "info"),
          CreateSuccessorRequest(4, MissingNode, NoText, NoDate, TRUE, "info")}

\* the node lists of the bulk requests: products only, with a node without
\* full_typecode (3), with an unknown id, and empty
BulkSources == {<< >>, <<4>>, <<5, 4>>, <<3, 4>>, <<MissingNode>>}
BulkTargets == {<< >>, <<6>>, <<5, 6>>, <<6, MissingNode>>}

InitSuccessors ==
    /\ nodes = ImportedNodes(CatalogueProducts)
    /\ paths = build_closure_table(ImportedNodes(CatalogueProducts), Len(CatalogueProducts))
    /\ seq = Len(CatalogueProducts)
    /\ last = NoResponse
    /\ constraints = {}
    /\ successors = {}
    /\ InitMediaIdle
    /\ call = NoCall
    /\ answer = NoAnswer

InitS == InitSuccessors /\ InitOptionsIdle /\ InitUsersIdle

CreateSuccessor ==
    /\ Cardinality(successors) < MaxSuccessors
    /\ \E request \in CreateSuccessorRequests, created_at \in creation_times(successors) :
         LET result == create_successor(nodes, successors, request, created_at)
         IN /\ call' = request
            /\ answer' = response_of(result)
            /\ successors' = result.rows
    /\ UNCHANGED <<treeVars, optVars, userVars, constraints, mediaVars>>

CreateSuccessorBulk ==
    /\ \E source_node_ids \in BulkSources, target_node_ids \in BulkTargets,
          created_at \in creation_times(successors) :
         LET request == CreateSuccessorBulkRequest(source_node_ids, target_node_ids)
             result  == create_successor_bulk(nodes, successors, request, created_at)
         IN /\ Cardinality(result.rows) <= MaxSuccessors
            /\ call' = request
            /\ answer' = response_of(result)
            /\ successors' = result.rows
    /\ UNCHANGED <<treeVars, optVars, userVars, constraints, mediaVars>>

GetNodeSuccessor ==
    /\ \E node_id \in {4, 5} :
         /\ call' = [op |-> "get_node_successor", node_id |-> node_id]
         /\ answer' \in get_node_successor(successors, node_id)
    /\ UNCHANGED <<treeVars, optVars, userVars, constraints, adminVars>>

GetProductSuccessor ==
    /\ \E code \in {NoText, <<"X">>, <<"A", " ", "B">>}, selections \in {<< >>, <<4>>} :
         LET request == [op |-> "get_product_successor", code |-> code,
                         selections |-> selections]
         IN /\ call' = request
            /\ answer' \in get_product_successor(nodes, successors, request)
    /\ UNCHANGED <<treeVars, optVars, userVars, constraints, adminVars>>

NextS ==
    \/ CreateSuccessor
    \/ CreateSuccessorBulk
    \/ GetNodeSuccessor
    \/ GetProductSuccessor

SpecSuccessors == InitS /\ [][NextS]_vars

-----------------------------------------------------------------------------
(* Constraint administration *)

MaxConstraints == 2    \* rows of table constraints

CreateConstraintRequest(level, mode, conditions, codes) ==
    [level |-> level, mode |-> mode, conditions |-> conditions, codes |-> codes]

\* what the database does while a handler runs: every statement succeeds, a
\* writing statement raises before the commit, or the read after the commit raises
Failures == {"none", "write", "read"}

\* cursor.lastrowid of the next INSERT INTO constraints
next_constraint_id(rows) == IF rows = {} THEN 1 ELSE Max({c.id : c \in rows}) + 1

\* GET /api/constraints/level/{level}
get_constraints_for_level(rows, level) == {c \in rows : c.level = level}

\* conn.rollback(): the tables as they were when the transaction began
rollback(before, working) == before

\* POST /api/constraints: the response and the tables afterwards
create_constraint(rows, request, failure) ==
    LET constraint_id == next_constraint_id(rows)
        working  == rows \cup {Constraint(constraint_id, request.level, request.mode, {}, {})}
        complete == rows \cup {Constraint(constraint_id, request.level, request.mode,
                                          request.conditions, request.codes)}
        result   == get_constraints_for_level(complete, request.level)
    IN IF failure = "write" THEN [status |-> 500, rows |-> rollback(rows, working)]
       ELSE IF failure = "read" THEN [status |-> 500, rows |-> complete]
       ELSE IF \A c \in result : c.id # constraint_id THEN [status |-> 500, rows |-> complete]
       ELSE [status |-> 200, id |-> constraint_id, rows |-> complete]

\* PUT /api/constraints/{constraint_id}: the response and the tables afterwards
update_constraint(rows, constraint_id, request, failure) ==
    LET stored   == {c \in rows : c.id = constraint_id}
        working  == (rows \ stored) \cup
                    {Constraint(c.id, c.level, request.mode, {}, {}) : c \in stored}
        complete == (rows \ stored) \cup
                    {Constraint(c.id, c.level, request.mode, request.conditions,
                                request.codes) : c \in stored}
        result   == get_constraints_for_level(complete, request.level)
    IN IF stored = {} THEN [status |-> 404, rows |-> rows]
       ELSE IF failure = "write" THEN [status |-> 500, rows |-> rollback(rows, working)]
       ELSE IF failure = "read" THEN [status |-> 500, rows |-> complete]
       ELSE IF \A c \in result : c.id # constraint_id THEN [status |-> 500, rows |-> complete]
       ELSE [status |-> 200, id |-> constraint_id, rows |-> complete]

-----------------------------------------------------------------------------
(* Specification of the constraint administration *)

ConstraintRequests ==
    {CreateConstraintRequest(level, mode, conditions, codes) :
        level \in {2, 3}, mode \in {"allow", "deny"},
        conditions \in {{ConstraintCondition("prefix", 1, <<"M">>)}},
        codes \in {{ConstraintCode("single", C015)}, {ConstraintCode("range", C010toC020)}}}

InitConstraintAdmin ==
    /\ constraints = {}
    /\ call = NoCall
    /\ answer = NoAnswer

InitCA == InitTreeIdle /\ InitOptionsIdle /\ InitUsersIdle /\ InitConstraintAdmin /\ InitAdminIdle

CreateConstraint ==
    /\ Cardinality(constraints) < MaxConstraints
    /\ \E request \in ConstraintRequests, failure \in Failures :
         LET result == create_constraint(constraints, request, failure)
         IN /\ call' = [op |-> "create_constraint", request |-> request]
            /\ answer' = response_of(result)
            /\ constraints' = result.rows
    /\ UNCHANGED <<treeVars, optVars, userVars, adminVars>>

UpdateConstraint ==
    /\ \E constraint_id \in 1..(MaxConstraints + 1), request \in ConstraintRequests,
          failure \in Failures :
         LET result == update_constraint(constraints, constraint_id, request, failure)
         IN /\ call' = [op |-> "update_constraint", constraint_id |-> constraint_id,
                        request |-> request]
            /\ answer' = response_of(result)
            /\ constraints' = result.rows
    /\ UNCHANGED <<treeVars, optVars, userVars, adminVars>>

NextCA ==
    \/ CreateConstraint
    \/ UpdateConstraint

SpecConstraintAdmin == InitCA /\ [][NextCA]_vars

-----------------------------------------------------------------------------
(* User accounts *)

AccountRow(username, role, is_active, must_change_password) ==
    [username |-> username, role |-> role, is_active |-> is_active,
     must_change_password |-> must_change_password]

\* POST /api/admin/users: the response and the users table afterwards; id is
\* the key AUTOINCREMENT hands out, higher than every stored one
create_user(us, request, id) ==
    IF request.role \notin {"admin", "user"} THEN [status |-> 400, users |-> us]
    ELSE IF \E u \in DOMAIN us : us[u].username = request.username
         THEN [status |-> 400, users |-> us]
    ELSE [status |-> 200,
          users |-> [u \in DOMAIN us \cup {id} |->
                        IF u = id THEN AccountRow(request.username, request.role, TRUE, TRUE)
                        ELSE us[u]]]

\* POST /api/auth/change-password: the response and the users table afterwards
change_password(us, current_user, old_password_ok) ==
    IF current_user \notin DOMAIN us THEN [status |-> 404, users |-> us]
    ELSE IF ~old_password_ok THEN [status |-> 400, users |-> us]
    ELSE [status |-> 200,
          users |-> [us EXCEPT ![current_user].must_change_password = FALSE]]

-----------------------------------------------------------------------------
(* Specification of the user administration: accounts are created, change  *)
(* their password and are deleted by concurrent requests of admins         *)

Usernames == <<"admin", "anna", "ben", "carl", "dora">>

\* any users table with an active admin; accounts may be disabled
InitAccounts ==
    /\ \E present \in SUBSET UserIds :
         \E roles \in [present -> {"admin", "user"}], active \in [present -> BOOLEAN] :
            /\ \E u \in present : roles[u] = "admin" /\ active[u]
            /\ users = [u \in present |-> AccountRow(Usernames[u], roles[u], active[u], FALSE)]
    /\ upc = [r \in Requests |-> "idle"]
    /\ ureq = [r \in Requests |-> [user_id |-> NoId, current_user |-> NoId]]
    /\ urow = [r \in Requests |-> "none"]
    /\ ures = [r \in Requests |-> 0]
    /\ lock = NoId

InitA == InitAccounts /\ InitTreeIdle /\ InitOptionsIdle /\ InitLookupIdle

\* the handler runs its statements in one piece; while another connection
\* holds the exclusive lock its first statement times out
CreateUser ==
    /\ \E username \in {"anna", "dora"}, role \in {"admin", "user", "guest"},
          id \in UserIds :
         /\ \A u \in DOMAIN users : u < id
         /\ LET request == [op |-> "create_user", username |-> username, role |-> role]
                result  == IF lock # NoId /\ role # "guest"
                           THEN [status |-> 500, users |-> users]
                           ELSE create_user(users, request, id)
            IN /\ call' = request
               /\ answer' = [status |-> result.status]
               /\ users' = result.users
    /\ UNCHANGED <<treeVars, optVars, constraints, adminVars, upc, ureq, urow, ures, lock>>

ChangePassword ==
    /\ \E current_user \in UserIds, old_password_ok \in BOOLEAN :
         LET result == IF lock # NoId THEN [status |-> 500, users |-> users]
                       ELSE change_password(users, current_user, old_password_ok)
         IN /\ call' = [op |-> "change_password", current_user |-> current_user]
            /\ answer' = [status |-> result.status]
            /\ users' = result.users
    /\ UNCHANGED <<treeVars, optVars, constraints, adminVars, upc, ureq, urow, ures, lock>>

\* delete_user is called by an account that is an active admin when the
\* request arrives
DeleteUserByAdmin ==
    /\ \E r \in Requests, user_id \in UserIds, current_user \in DOMAIN users :
         /\ users[current_user].role = "admin"
         /\ users[current_user].is_active
         /\ delete_user_start(r, user_id, current_user)
    /\ UNCHANGED <<treeVars, optVars, lookupVars>>

NextA ==
    \/ CreateUser
    \/ ChangePassword
    \/ DeleteUserByAdmin
    \/ BeginExclusive
    \/ BeginBusy
    \/ DeleteUserCheck
    \/ DeleteUserGuard
    \/ DeleteUserCommit
    \/ DeleteUserReturn

SpecAccounts == InitA /\ [][NextA]_vars

-----------------------------------------------------------------------------
(* Rebuild of the closure table after an import *)

MaxForest == 4         \* nodes of an imported forest

\* SELECT id, parent_id FROM nodes ORDER BY level: the orders the database may
\* return the rows in, rows of equal level in any order
rows_by_level(ns) ==
    {order \in Permutations(Ids(ns)) :
        \A i \in Ids(ns), j \in Ids(ns) :
            i < j => ns[order[i]].level <= ns[order[j]].level}

\* the loop of build_closure_table from the i-th row on: the self-reference
\* of the node, then the paths its parent has so far with depth + 1
RECURSIVE insert_paths(_, _, _, _)
insert_paths(ns, order, i, ps) ==
    IF i > Len(order) THEN ps
    ELSE LET node_id   == order[i]
             parent_id == ns[node_id].parent_id
             self      == ps \cup {PathRow(node_id, node_id, 0)}
         IN insert_paths(ns, order, i + 1,
              self \cup (IF parent_id = NoId THEN {}
                         ELSE {PathRow(p.ancestor_id, node_id, p.depth + 1) :
                                 p \in {q \in self : q.descendant_id = parent_id}}))

-----------------------------------------------------------------------------
(* Specification of the import of a forest followed by the rebuild *)

\* the JSON nodes of a forest: coded nodes and pattern containers, every
\* node after its parent, the roots coded
ForestEntries ==
    {<<kind[1], parent_id, 0, kind[2], NULL>> :
        kind \in {<<"A", NoPattern>>, <<NULL, 2>>}, parent_id \in 0..(MaxForest - 1)}

Forests ==
    UNION {{cat \in [1..n -> ForestEntries] :
              \A i \in 1..n : /\ cat[i][2] < i
                              /\ cat[i][2] = NoId => cat[i][1] # NULL}
           : n \in 1..MaxForest}

InitImport ==
    /\ \E cat \in Forests :
         /\ nodes = ImportedNodes(cat)
         /\ seq = Len(cat)
    /\ paths = {}
    /\ last = NoResponse

InitI == InitImport /\ InitOptionsIdle /\ InitUsersIdle /\ InitLookupIdle

BuildClosureTable ==
    /\ paths = {}
    /\ \E order \in rows_by_level(nodes) :
         paths' = insert_paths(nodes, order, 1, {})
    /\ UNCHANGED <<nodes, seq, last, optVars, userVars, lookupVars>>

NextI ==
    \/ BuildClosureTable

SpecImport == InitI /\ [][NextI]_vars

-----------------------------------------------------------------------------
(* Specification of the lookups over a catalogue with a code used twice    *)
(* below one node                                                          *)

\* A > (1) > X and A > (2) > X > B: the containers 1 and 2 of family A both
\* hold a code X at level 1, and only the second X has the code B below it
CatalogueSameCode ==
    << <<"A", 0, 0, NoPattern, NULL>>,
       <<NULL, 1, 0, 1, NULL>>,
       <<"X", 2, 0, NoPattern, NULL>>,
       <<NULL, 1, 1, 2, NULL>>,
       <<"X", 4, 0, NoPattern, NULL>>,
       <<"B", 5, 0, NoPattern, NULL>> >>

InitSameCode ==
    /\ nodes = ImportedNodes(CatalogueSameCode)
    /\ paths = build_closure_table(ImportedNodes(CatalogueSameCode), Len(CatalogueSameCode))
    /\ seq = Len(CatalogueSameCode)
    /\ last = NoResponse
    /\ constraints = {}
    /\ InitAdminIdle
    /\ \E tokens \in SeqsUpTo(Tokens, MaxTokens) \ {<< >>}, style \in Styles,
          op \in {"decode", "check"} :
         /\ op = "check" => \A k \in 1..Len(tokens) : tokens[k] # Wildcard
         /\ call = lookup_call(op, typed(tokens, style))
    /\ answer = NoAnswer

InitT == InitSameCode /\ InitOptionsIdle /\ InitUsersIdle

NextT ==
    \/ LookupReturn

SpecSameCode == InitT /\ [][NextT]_vars

-----------------------------------------------------------------------------
(* Media: links and pictures of a node *)

MaxWorkers == 2        \* server processes, each with one event loop

Workers == 1..MaxWorkers

NoUpload == [pc |-> "idle", op |-> "none", node_id |-> NoId, url |-> "", worker |-> 0,
             existing |-> << >>, status |-> 0]

\* the request has arrived at a worker and its handler is scheduled
media_begin(r, op, node_id, url, worker) ==
    /\ uploads[r].pc = "idle"
    /\ uploads' = [uploads EXCEPT ![r] = [pc |-> "select", op |-> op, node_id |-> node_id,
                                          url |-> url, worker |-> worker,
                                          existing |-> << >>, status |-> 0]]
    /\ UNCHANGED <<links, pictures>>

\* the event loop of the worker of r runs no other handler between its SELECT
\* and its commit: the handlers are coroutines without await in that part
loop_free(r) ==
    \A q \in DOMAIN uploads \ {r} :
        uploads[q].worker = uploads[r].worker => uploads[q].pc # "update"

\* SELECT links FROM nodes WHERE id = ?: the handler keeps the parsed array;
\* the 404 for a missing node is raised inside the try and answered as 500
select_media(r, column) ==
    /\ uploads[r].pc = "select"
    /\ loop_free(r)
    /\ IF uploads[r].node_id \notin Ids(nodes)
       THEN uploads' = [uploads EXCEPT ![r].pc = "done", ![r].status = 500]
       ELSE uploads' = [uploads EXCEPT ![r].pc = "update",
                                       ![r].existing = column[uploads[r].node_id]]
    /\ UNCHANGED <<links, pictures>>

\* existing.append(new); UPDATE nodes SET ... = json.dumps(existing); commit
updated_media(r, column) ==
    [column EXCEPT ![uploads[r].node_id] = Append(uploads[r].existing, uploads[r].url)]

add_node_link_select(r) ==
    /\ uploads[r].op = "add_node_link"
    /\ select_media(r, links)

add_node_link_update(r) ==
    /\ uploads[r].op = "add_node_link"
    /\ uploads[r].pc = "update"
    /\ links' = updated_media(r, links)
    /\ uploads' = [uploads EXCEPT ![r].pc = "done", ![r].status = 200]
    /\ UNCHANGED pictures

\* the file type is validated and the file stored before the database is read
upload_node_image_begin(r, node_id, url, allowed_extension, worker) ==
    IF allowed_extension THEN media_begin(r, "upload_node_image", node_id, url, worker)
    ELSE /\ uploads[r].pc = "idle"
         /\ uploads' = [uploads EXCEPT ![r] = [NoUpload EXCEPT !.pc = "done", !.status = 400,
                                                               !.op = "upload_node_image"]]
         /\ UNCHANGED <<links, pictures>>

upload_node_image_select(r) ==
    /\ uploads[r].op = "upload_node_image"
    /\ select_media(r, pictures)

upload_node_image_update(r) ==
    /\ uploads[r].op = "upload_node_image"
    /\ uploads[r].pc = "update"
    /\ pictures' = updated_media(r, pictures)
    /\ uploads' = [uploads EXCEPT ![r].pc = "done", ![r].status = 200]
    /\ UNCHANGED links

-----------------------------------------------------------------------------
(* Specification of concurrent media requests *)

\* the link or file each request carries
MediaUrls == <<"u1", "u2", "u3">>

InitMedia ==
    /\ nodes = ImportedNodes(CatalogueContainer)
    /\ paths = build_closure_table(ImportedNodes(CatalogueContainer), Len(CatalogueContainer))
    /\ seq = Len(CatalogueContainer)
    /\ last = NoResponse
    /\ links = [n \in 1..Len(CatalogueContainer) |-> << >>]
    /\ pictures = [n \in 1..Len(CatalogueContainer) |-> << >>]
    /\ uploads = [r \in Requests |-> NoUpload]

InitM ==
    /\ InitMedia /\ InitOptionsIdle /\ InitUsersIdle
    /\ constraints = {} /\ call = NoCall /\ answer = NoAnswer /\ successors = {}

AddNodeLink ==
    /\ \E r \in Requests, node_id \in {3, 4, MissingNode}, worker \in Workers :
         media_begin(r, "add_node_link", node_id, MediaUrls[r], worker)
    /\ UNCHANGED <<treeVars, optVars, userVars, constraints, call, answer, successors>>

AddNodeLinkSelect ==
    /\ \E r \in Requests : add_node_link_select(r)
    /\ UNCHANGED <<treeVars, optVars, userVars, constraints, call, answer, successors>>

AddNodeLinkUpdate ==
    /\ \E r \in Requests : add_node_link_update(r)
    /\ UNCHANGED <<treeVars, optVars, userVars, constraints, call, answer, successors>>

UploadNodeImage ==
    /\ \E r \in Requests, node_id \in {3, 4, MissingNode}, allowed_extension \in BOOLEAN,
          worker \in Workers :
         upload_node_image_begin(r, node_id, MediaUrls[r], allowed_extension, worker)
    /\ UNCHANGED <<treeVars, optVars, userVars, constraints, call, answer, successors>>

UploadNodeImageSelect ==
    /\ \E r \in Requests : upload_node_image_select(r)
    /\ UNCHANGED <<treeVars, optVars, userVars, constraints, call, answer, successors>>

UploadNodeImageUpdate ==
    /\ \E r \in Requests : upload_node_image_update(r)
    /\ UNCHANGED <<treeVars, optVars, userVars, constraints, call, answer, successors>>

NextM ==
    \/ AddNodeLink
    \/ AddNodeLinkSelect
    \/ AddNodeLinkUpdate
    \/ UploadNodeImage
    \/ UploadNodeImageSelect
    \/ UploadNodeImageUpdate

SpecMedia == InitM /\ [][NextM]_vars

-----------------------------------------------------------------------------
(* C1: after any sequence of create_family, create_node,                   *)
(* create_node_with_children, delete_node and delete_family calls,         *)
(* node_paths holds (n, n, 0) for every stored node n and holds (a, d, k)  *)
(* exactly when a is reached from d by a chain of k parent edges; no row   *)
(* names a deleted node and there are no other rows.                       *)
ClosureComplete ==
    /\ \A n \in Ids(nodes) : PathRow(n, n, 0) \in paths
    /\ \A p \in paths :
         /\ p.ancestor_id \in Ids(nodes)
         /\ p.descendant_id \in Ids(nodes)
         /\ p.depth \in 0..MaxNodes
         /\ ParentChain(nodes, p.descendant_id, p.depth) = p.ancestor_id
    /\ \A d \in Ids(nodes) : \A k \in 0..MaxNodes :
         LET a == ParentChain(nodes, d, k)
         IN a # NoId => PathRow(a, d, k) \in paths

\* a subtree was deleted after nodes had been created below imported ones, and
\* a created node with a parent and with a grandparent is still stored
ClosureWitness ==
    /\ last.op = "delete_node" /\ last.status = 200 /\ last.nodes_created >= 2
    /\ \E n \in Ids(nodes) :
         /\ n > 4
         /\ nodes[n].parent_id # NoId
         /\ nodes[nodes[n].parent_id].parent_id # NoId
         /\ Cardinality({p \in paths : p.descendant_id = n}) >= 3

-----------------------------------------------------------------------------
\* the ids of the subtree rooted at r: r and everything below it
SubtreeIds(ns, r) ==
    {d \in Ids(ns) : \E k \in 0..MaxNodes : ParentChain(ns, d, k) = r}

(* C10: create_node_with_children copies the whole subtree of              *)
(* source_node_id under the new parent: every node of the source subtree   *)
(* gets a copy with the same code whose parent is the copy of its original *)
(* parent (the copy of the source hangs below the new parent), and         *)
(* nodes_created counts the new parent and one copy per subtree node.      *)
DeepCopyWholeSubtree ==
    (/\ last.op = "create_node_with_children" /\ last.status = 200
     /\ last.source_node_id \in Ids(nodes) \ last.created)
    => LET src == last.source_node_id
           new_parent == last.node_id
           T == SubtreeIds(nodes, src) \ last.created
           copies == last.created \ {new_parent}
       IN /\ last.nodes_created = Cardinality(T) + 1
          /\ \E m \in [T -> copies] :
               /\ \A c \in copies : \E d \in T : m[d] = c
               /\ \A d, e \in T : m[d] = m[e] => d = e
               /\ \A d \in T : nodes[m[d]].code = nodes[d].code
               /\ nodes[m[src]].parent_id = new_parent
               /\ \A d \in T \ {src} : nodes[m[d]].parent_id = m[nodes[d].parent_id]

-----------------------------------------------------------------------------
(* C2: starting from any users table with at least one admin, no           *)
(* interleaving of concurrent delete_user requests reaches a table without *)
(* a user of role admin.                                                   *)
LastAdminGuard == admin_count(users) >= 1

\* two requests were in flight together, each for an admin, and exactly one
\* admin is left: one request deleted its admin, the other was refused
LastAdminWitness ==
    /\ admin_count(users) = 1
    /\ \E r, q \in Requests :
         /\ r # q
         /\ ureq[r].user_id # ureq[q].user_id
         /\ upc[r] = "done" /\ ures[r] = 200 /\ urow[r] = "admin"
         /\ upc[q] = "done" /\ ures[q] = 400 /\ urow[q] = "admin"
         /\ ureq[q].user_id # ureq[q].current_user

-----------------------------------------------------------------------------
(* The answer of the options resolver, read against the parent chains *)

\* a is d or an ancestor of d along the parent edges
IsAncestor(a, d) == \E k \in 0..MaxNodes : ParentChain(nodes, d, k) = a

Answered == optReq # NoReq /\ optRes.status = 200

Options == {optRes.options[i] : i \in 1..Len(optRes.options)}

\* the stored nodes with a code at a level, and those of them below a root
SameCodeLevel(code, level) ==
    {n \in Ids(nodes) : nodes[n].code = code /\ nodes[n].level = level}

FamilyGroup(root, code, level) == {n \in SameCodeLevel(code, level) : IsAncestor(root, n)}

\* the pre-prune ids of an option: its code group inside the family
GroupOf(o) == FamilyGroup(optRes.family_id, o.code, optReq.target_level)

\* a selection the pruning uses: another level, and ids (or the single id) sent
Usable(selection) ==
    /\ selection.level # optReq.target_level
    /\ selection.ids # {} \/ selection.id # NoId

CarriedIds(selection) == IF selection.ids # {} THEN selection.ids ELSE {selection.id}

\* g lies on a path with some id of the selection
OnPath(g, selection) ==
    IF selection.level < optReq.target_level
    THEN \E a \in CarriedIds(selection) : IsAncestor(a, g)
    ELSE \E d \in CarriedIds(selection) : IsAncestor(g, d)

\* the ids of the group that survive the pruning against every usable selection
Survivors(o) ==
    {g \in GroupOf(o) : \A i \in 1..Len(optReq.previous_selections) :
        Usable(optReq.previous_selections[i]) => OnPath(g, optReq.previous_selections[i])}

(* C3: without a group_filter every emitted option is compatible exactly   *)
(* when at least one id of its code group survives the pruning against     *)
(* every usable selection at another level, and an option without a        *)
(* surviving id carries its pre-prune ids and is_compatible = false.       *)
CompatibleIffSurvivor ==
    (Answered /\ optReq.group_filter = NULL)
    => \A o \in Options :
         /\ o.is_compatible <=> Survivors(o) # {}
         /\ Survivors(o) = {} => o.ids = GroupOf(o) /\ ~o.is_compatible

(* C4: the ids of an option are the ids of its group that are descendants  *)
(* of some id of every usable earlier selection and ancestors of some id   *)
(* of every usable later selection (the whole group when none is left);    *)
(* and with the family selection carrying the family's id and one later    *)
(* selection with ids, exactly the codes having a node that is an ancestor *)
(* of one of those ids are compatible.                                     *)
PruningRetainsPaths ==
    Answered
    => /\ \A o \in Options :
            IF Survivors(o) # {} THEN o.ids = Survivors(o) ELSE o.ids = GroupOf(o)
       /\ LET sels == optReq.previous_selections
          IN (/\ Len(sels) = 2 /\ optReq.group_filter = NULL
              /\ sels[1].level = 0 /\ sels[1].ids = {optRes.family_id}
              /\ sels[2].level > optReq.target_level /\ sels[2].ids # {}
              /\ optReq.target_level >= 1)
             => \A o \in Options :
                  o.is_compatible <=> \E g \in GroupOf(o), d \in sels[2].ids : IsAncestor(g, d)

\* the scenario at target level 1 with a level-3 selection: one code is
\* compatible, another is not
PruningWitness ==
    /\ Answered /\ optReq.group_filter = NULL /\ optReq.target_level = 1
    /\ Len(optReq.previous_selections) = 2
    /\ optReq.previous_selections[1].level = 0
    /\ optReq.previous_selections[1].ids = {optRes.family_id}
    /\ optReq.previous_selections[2].level = 3
    /\ optReq.previous_selections[2].ids # {}
    /\ \E o, q \in Options : o.is_compatible /\ ~q.is_compatible

(* C5: every id of every returned option (the representative id and the   *)
(* ids) is a descendant of a level-0 node whose code is the code of the    *)
(* request's first level-0 selection, also when the same code exists at    *)
(* the same level in another family.                                       *)
FamilyIsolation ==
    Answered
    => \A o \in Options : \A n \in o.ids \cup {o.id} :
         \E r \in Ids(nodes) :
            /\ nodes[r].level = 0
            /\ \E i \in 1..Len(optReq.previous_selections) :
                 /\ optReq.previous_selections[i].level = 0
                 /\ \A j \in 1..(i - 1) : optReq.previous_selections[j].level # 0
                 /\ nodes[r].code = optReq.previous_selections[i].code
            /\ IsAncestor(r, n)

\* an option is returned whose code exists at the target level in another
\* family too, and a selection of the request carries an id of that family
FamilyIsolationWitness ==
    /\ Answered
    /\ \E o \in Options :
         /\ SameCodeLevel(o.code, optReq.target_level) \ GroupOf(o) # {}
         /\ \E i \in 1..Len(optReq.previous_selections) :
              \E n \in optReq.previous_selections[i].ids :
                 /\ optReq.previous_selections[i].level \notin {0, optReq.target_level}
                 /\ ~IsAncestor(optRes.family_id, n)

\* the request asks with the family and the code X of a lower level of the
\* family, X carrying all ids of its code inside the family
AsksBelow(sels) ==
    /\ Len(sels) = 2 /\ optReq.group_filter = NULL
    /\ sels[1].level = 0
    /\ sels[2].level >= 1 /\ sels[2].level < optReq.target_level
    /\ FamilyGroup(optRes.family_id, sels[2].code, sels[2].level) # {}
    /\ FamilyGroup(optRes.family_id, sels[2].code, sels[2].level) \subseteq sels[2].ids

\* is_compatible of the code X in the options computed from the family and
\* the code of o carrying the ids Sy
CompatibleBack(sels, o, Sy) ==
    LET back == OptionsRequest(sels[2].level,
                               <<sels[1], Selection(o.code, optReq.target_level, NoId, Sy)>>,
                               NULL)
        group == FamilyGroup(optRes.family_id, sels[2].code, sels[2].level)
    IN available_option(nodes, paths, back, group, CHOOSE n \in group : TRUE).is_compatible

(* C6: for a code X at a lower level and a code Y at a higher level of the *)
(* same family, each sent with all its ids: Y is compatible in the options *)
(* computed from the family and X at the level of Y exactly when X is      *)
(* compatible in the options computed from the family and Y at the level   *)
(* of X.                                                                   *)
CompatibilitySymmetry ==
    (Answered /\ AsksBelow(optReq.previous_selections))
    => \A o \in Options :
         \A Sy \in SUBSET SameCodeLevel(o.code, optReq.target_level) :
            GroupOf(o) \subseteq Sy
            => (o.is_compatible <=> CompatibleBack(optReq.previous_selections, o, Sy))

\* both outcomes in one answer: a code Y that is compatible with X and a code
\* that is not, or an answer whose only code is incompatible
SymmetryWitness ==
    /\ Answered /\ AsksBelow(optReq.previous_selections)
    /\ \E o \in Options :
         /\ ~o.is_compatible
         /\ ~CompatibleBack(optReq.previous_selections, o, GroupOf(o))

\* the request without its k-th selection
WithoutSelection(req, k) ==
    OptionsRequest(req.target_level,
                   SubSeq(req.previous_selections, 1, k - 1)
                     \o SubSeq(req.previous_selections, k + 1, Len(req.previous_selections)),
                   req.group_filter)

Unspecified(selection) == selection.level # 0 /\ selection.ids = {} /\ selection.id = NoId

(* C7: a selection at a non-zero level without ids and without id does not *)
(* change the answer: the request without it gets the same status and the  *)
(* same options.                                                           *)
EmptySelectionSkipped ==
    optReq # NoReq
    => \A k \in 1..Len(optReq.previous_selections) :
         Unspecified(optReq.previous_selections[k])
         => LET rest == WithoutSelection(optReq, k)
                family_code == root_family(rest.previous_selections, 1)
            IN IF optRes.status = 400
               THEN family_code = NULL \/ family_code = ""
               ELSE /\ family_code # NULL /\ family_code # ""
                    /\ optRes.family_id \in family_ids(nodes, family_code)
                    /\ optRes.options =
                         results(nodes, paths, rest, optRes.family_id, optRes.representative)

\* a selection without ids names a code of another level, and a compatible
\* option keeps an id that lies on no path with a node of that code
EmptySelectionWitness ==
    /\ Answered
    /\ \E k \in 1..Len(optReq.previous_selections) :
         LET selection == optReq.previous_selections[k]
         IN /\ Unspecified(selection)
            /\ selection.level # optReq.target_level
            /\ SameCodeLevel(selection.code, selection.level) # {}
            /\ \E o \in Options :
                 /\ o.is_compatible
                 /\ \E g \in o.ids : \A n \in SameCodeLevel(selection.code, selection.level) :
                      ~IsAncestor(n, g) /\ ~IsAncestor(g, n)

\* x does not sort after y by (parent_pattern as a number with None first,
\* not is_compatible, position, code)
NumberKeyLeq(x, y) ==
    \/ x.parent_pattern < y.parent_pattern
    \/ /\ x.parent_pattern = y.parent_pattern
       /\ \/ x.is_compatible /\ ~y.is_compatible
          \/ /\ x.is_compatible = y.is_compatible
             /\ \/ x.position < y.position
                \/ /\ x.position = y.position
                   /\ code_rank(x.code) <= code_rank(y.code)

(* C8: the returned sequence is sorted by (parent_pattern, not             *)
(* is_compatible, position, code) with parent_pattern ascending as an      *)
(* integer.                                                                *)
SortedByNumberPattern ==
    Answered
    => \A i, j \in 1..Len(optRes.options) :
         i < j => NumberKeyLeq(optRes.options[i], optRes.options[j])

\* some selection has level 0
HasFamilySelection(sels) == \E i \in 1..Len(sels) : sels[i].level = 0

\* the first selection with level 0 has the empty code
FirstFamilyCodeEmpty(sels) ==
    \E i \in 1..Len(sels) :
       /\ sels[i].level = 0 /\ sels[i].code = ""
       /\ \A j \in 1..(i - 1) : sels[j].level # 0

(* C9: the resolver answers 400 exactly when no selection has level 0, and *)
(* a list in every other case.                                             *)
BadRequestOnlyWithoutFamily ==
    optReq # NoReq
    => IF HasFamilySelection(optReq.previous_selections)
       THEN optRes.status = 200
       ELSE optRes.status = 400

(* C9, amended: the resolver answers 400 exactly when no selection has     *)
(* level 0 or the first selection with level 0 has an empty code, and a    *)
(* (possibly empty) list in every other case, also for a family code that  *)
(* no level-0 node has.                                                    *)
BadRequestWithoutFamilyCode ==
    optReq # NoReq
    => IF \/ ~HasFamilySelection(optReq.previous_selections)
          \/ FirstFamilyCodeEmpty(optReq.previous_selections)
       THEN optRes.status = 400
       ELSE optRes.status = 200

\* a 400 although a later selection names an existing family
BadRequestWitness ==
    /\ optReq # NoReq /\ optRes.status = 400
    /\ FirstFamilyCodeEmpty(optReq.previous_selections)
    /\ \E i \in 1..Len(optReq.previous_selections) :
         /\ optReq.previous_selections[i].level = 0
         /\ SameCodeLevel(optReq.previous_selections[i].code, 0) # {}

-----------------------------------------------------------------------------
\* the node copied by the last create_node_with_children (NoId when none was)
CopiedNode ==
    IF /\ last.op = "create_node_with_children" /\ last.status = 200
       /\ last.created # {last.node_id}
    THEN CHOOSE c \in last.created : c # last.node_id
    ELSE NoId

(* C11: when create_node_with_children has committed, the closure rows of  *)
(* the copied node are exactly: itself at depth 0, and the new parent and  *)
(* every ancestor a of the new parent at depth depth(a, new_parent) + 1 +  *)
(* depth_within_subtree (0 for the copy of the source, the only node the   *)
(* handler copies); with a new parent that has a parent and with one that  *)
(* is a root.                                                              *)
CopyClosureRows ==
    CopiedNode # NoId
    => {p \in paths : p.descendant_id = CopiedNode}
         = {PathRow(CopiedNode, CopiedNode, 0)}
           \cup {PathRow(ParentChain(nodes, last.node_id, k), CopiedNode, k + 1 + 0) :
                   k \in {j \in 0..MaxNodes : ParentChain(nodes, last.node_id, j) # NoId}}

\* a source with ancestors of its own was copied below a new parent that has
\* a parent
CopyClosureWitness ==
    /\ CopiedNode # NoId
    /\ nodes[last.node_id].parent_id # NoId
    /\ last.source_node_id \in Ids(nodes)
    /\ nodes[last.source_node_id].parent_id # NoId
    /\ ~IsAncestor(nodes[last.source_node_id].parent_id, last.node_id)

\* the same below a new parent that is a root
CopyClosureRootWitness ==
    /\ CopiedNode # NoId
    /\ nodes[last.node_id].parent_id = NoId
    /\ last.source_node_id \in Ids(nodes)
    /\ nodes[last.source_node_id].parent_id # NoId

-----------------------------------------------------------------------------
\* the step removes exactly the nodes gone and the closure rows naming them
RemovesExactly(gone) ==
    LET removed == Ids(nodes) \ Ids(nodes')
    IN /\ Ids(nodes') \subseteq Ids(nodes)
       /\ removed = gone
       /\ \A n \in Ids(nodes') : nodes'[n] = nodes[n]
       /\ paths' = {p \in paths : p.ancestor_id \notin removed /\ p.descendant_id \notin removed}

\* the stored nodes that carry the code and the level of node n
SameCodeAndLevel(n) ==
    {i \in Ids(nodes) : nodes[i].code = nodes[n].code /\ nodes[i].level = nodes[n].level}

(* C12: a delete_node(id) that succeeds removes exactly the descendant set *)
(* of id (id included) with every closure row that references one of them  *)
(* and leaves every other node and closure row unchanged, also the nodes   *)
(* of other subtrees or families with the same code at the same level.     *)
DeleteNodeRemovesSubtreeOnly ==
    [][(last'.op = "delete_node" /\ last'.status = 200 /\ delete_node(last'.node_id))
       => RemovesExactly(SubtreeIds(nodes, last'.node_id))]_vars

(* C12, amended: a delete_node(id) that succeeds removes exactly the        *)
(* descendant sets of all nodes that carry the code and the level of id    *)
(* (in every subtree and family) with every closure row that references    *)
(* one of them and leaves every other node and closure row unchanged; a    *)
(* delete_node that is refused (unknown id, level 0, node without code)    *)
(* changes nothing.                                                        *)
DeleteNodeRemovesCodeGroup ==
    [][(last'.op = "delete_node" /\ delete_node(last'.node_id))
       => IF last'.status = 200
          THEN RemovesExactly(UNION {SubtreeIds(nodes, i) : i \in SameCodeAndLevel(last'.node_id)})
          ELSE nodes' = nodes /\ paths' = paths]_vars

\* of an imported catalogue with two families of three levels one call has
\* removed the two level-2 nodes, one in each family
DeleteNodeWitness ==
    /\ last.op = "delete_node" /\ last.status = 200 /\ last.nodes_created = 2
    /\ seq = 6
    /\ Cardinality(Ids(nodes)) = 4
    /\ Cardinality({n \in Ids(nodes) : nodes[n].level = 0}) = 2
    /\ \A r \in {n \in Ids(nodes) : nodes[n].level = 0} :
         \E n \in Ids(nodes) : nodes[n].level = 1 /\ nodes[n].parent_id = r

\* the level of a stored node n fits the parent it is attached to
LevelFitsParent(n) ==
    nodes[n].parent_id \in Ids(nodes)
    => IF nodes[n].code = NULL /\ nodes[n].pattern # NoPattern
       THEN nodes[n].level = nodes[nodes[n].parent_id].level
       ELSE nodes[n].level = nodes[nodes[n].parent_id].level + 1

(* C13: after any sequence of create_family, create_node and               *)
(* create_node_with_children calls on a well-formed forest every pattern   *)
(* container has the level of its parent and every coded node has its      *)
(* parent's level + 1.                                                     *)
LevelsFitParents == \A n \in Ids(nodes) : LevelFitsParent(n)

(* C14: an update_node whose request carries a code different from the     *)
(* stored code of the node is answered with an error (400) and changes     *)
(* nothing: no row of nodes (code, name, labels, group_name of the node    *)
(* and of its descendants) and no closure row differs afterwards.          *)
UpdateNodeRefusesCodeChange ==
    [][(last'.op = "update_node" /\ last'.node_id \in Ids(nodes))
       => \A code \in {"A", "Z"}, texts \in {<<NULL, NULL, NULL>>, <<"n", "l", "e">>},
             group_name \in {NULL, "g1"} :
             (/\ code # nodes[last'.node_id].code
              /\ update_node(last'.node_id, code, texts[1], texts[2], texts[3], group_name))
             => last'.status = 400 /\ nodes' = nodes /\ paths' = paths]_vars

\* a code change was refused for a node that has a descendant, after another
\* update had set the texts of a node
UpdateNodeWitness ==
    /\ last.op = "update_node" /\ last.status = 400
    /\ last.node_id \in Ids(nodes)
    /\ \E d \in Ids(nodes) : nodes[d].parent_id = last.node_id
    /\ \E n \in Ids(nodes) : nodes[n].name = "n" /\ nodes[n].label_en = "e"

-----------------------------------------------------------------------------
(* C19: for every non-empty text s over the accepted characters and        *)
(* separators, normalising the normalised text changes nothing:            *)
(* reconstruct_typecode(split_typecode(reconstruct_typecode(               *)
(* split_typecode(s)))) = reconstruct_typecode(split_typecode(s)).         *)
NormalisationIdempotent ==
    (call.op = "normalise" /\ answer # NoAnswer /\ Len(answer.normalized) = 2)
    => answer.normalized[2] = answer.normalized[1]

\* a text with lower case, an underscore between word characters and a
\* run of separators has been normalised twice to a text of two tokens
NormalisationWitness ==
    /\ call.op = "normalise"
    /\ call.input = <<"a", "_", "1", "-", " ">>
    /\ answer # NoAnswer
    /\ answer.normalized = << <<"A", " ", "1">>, <<"A", " ", "1">> >>

-----------------------------------------------------------------------------
(* C15: decode_typecode gives every segment of a decoded path its          *)
(* cumulative 1-based character positions with inclusive ends, a separator *)
(* counting as one character: the segments of 'A A12-X' lie at (1,1),      *)
(* (3,5) and (7,7).                                                        *)

\* the answer of a decode call that walked a path of two or more tokens
DecodedPath ==
    /\ call.op = "decode" /\ answer # NoAnswer /\ answer.status = 200
    /\ answer.exists /\ answer.product_type \in {"complete_product", "partial_code"}

\* 1-based position of the first character of segment k in the canonical text
RECURSIVE SegmentStart(_, _)
SegmentStart(segments, k) ==
    IF k = 1 THEN 1
    ELSE SegmentStart(segments, k - 1) + Len(segments[k - 1].code) + 1

DecodePositionsInclusive ==
    DecodedPath
    => \A k \in 1..Len(answer.path_segments) :
         LET segment == answer.path_segments[k]
             start == SegmentStart(answer.path_segments, k)
         IN /\ segment.position_start = start
            /\ segment.position_end = start + Len(segment.code) - 1

-----------------------------------------------------------------------------
(* C16: for every node with a non-NULL full_typecode, decoding that        *)
(* full_typecode answers exists and is_complete_product, and the segments  *)
(* are exactly the coded ancestors of the node in level order, the family  *)
(* first and the node itself last.                                         *)

\* the node and its ancestors along the parent edges that carry a code
CodedAncestors(n) == {a \in Ids(nodes) : IsAncestor(a, n) /\ nodes[a].code # NULL}

-----------------------------------------------------------------------------
(* C17: when a code of two or more tokens without wildcard has a token     *)
(* that matches no descendant at its level, as NOPE in 'A A12-NOPE' where  *)
(* A > A12 exists, decode_typecode and check_node_code answer              *)
(* exists = false with product_type = unknown.                             *)

\* the nodes that token k of parts can stand for: level k - 1, the token as
\* code, below a node that token k - 1 can stand for (along the parent edges)
RECURSIVE Matching(_, _)
Matching(parts, k) ==
    {n \in Ids(nodes) :
        /\ nodes[n].level = k - 1
        /\ nodes[n].code # NULL
        /\ Chars(nodes[n].code) = parts[k]
        /\ k > 1 => \E a \in Matching(parts, k - 1) : IsAncestor(a, n)}

\* a lookup of two or more tokens without wildcard has returned
PathLookupAnswered ==
    /\ call.op \in {"decode", "check"}
    /\ answer # NoAnswer
    /\ Len(split_typecode(call.code)) >= 2
    /\ \A k \in 1..Len(split_typecode(call.code)) : split_typecode(call.code)[k] # Wildcard

MismatchIsUnknown ==
    LET parts == split_typecode(call.code)
    IN (PathLookupAnswered /\ \E k \in 1..Len(parts) : Matching(parts, k) = {})
       => /\ answer.status = 200
          /\ ~answer.exists
          /\ answer.product_type = "unknown"

\* check_node_code has answered 'A A12-N' on a catalogue that holds A > A12
\* and no N below it
MismatchWitness ==
    /\ call = lookup_call("check", <<"A", " ", "A", "1", "2", "-", "N">>)
    /\ answer # NoAnswer
    /\ Matching(split_typecode(call.code), 2) # {}
    /\ Matching(split_typecode(call.code), 3) = {}

-----------------------------------------------------------------------------
(* C18: in the wildcard branch of decode_typecode the first token must be  *)
(* a literal family (a leading '*' answers exists = false); each literal   *)
(* token narrows the frontier to the descendants with that code at its     *)
(* level, each '*' advances it to all coded descendants at the next level  *)
(* and emits one synthetic segment: 'A A12 * X' answers the segments A,    *)
(* A12, '*', X in that order.                                              *)

\* the frontier after token k, along the parent edges: the family roots for
\* k = 1, then the coded nodes of level k - 1 below the frontier before,
\* all of them for '*' and those with the token as code otherwise
RECURSIVE Frontier(_, _)
Frontier(parts, k) ==
    {n \in Ids(nodes) :
        /\ nodes[n].level = k - 1
        /\ nodes[n].code # NULL
        /\ parts[k] = Wildcard \/ Chars(nodes[n].code) = parts[k]
        /\ IF k = 1 THEN nodes[n].parent_id = NoId /\ parts[k] # Wildcard
           ELSE \E a \in Frontier(parts, k - 1) : IsAncestor(a, n)}

\* the tokens up to the first one that leaves the frontier empty
Reached(parts) == {k \in 1..Len(parts) : \A j \in 1..k : Frontier(parts, j) # {}}

\* decode_typecode has answered a code of two or more tokens with a wildcard
WildcardAnswered ==
    /\ call.op = "decode"
    /\ answer # NoAnswer
    /\ Len(split_typecode(call.code)) >= 2
    /\ \E k \in 1..Len(split_typecode(call.code)) : split_typecode(call.code)[k] = Wildcard

WildcardSegments ==
    LET parts == split_typecode(call.code)
    IN WildcardAnswered
       => /\ answer.status = 200
          /\ IF Reached(parts) = {}
             THEN ~answer.exists /\ answer.product_type = "unknown"
             ELSE /\ answer.product_type = "wildcard_search"
                  /\ answer.exists = (Cardinality(Reached(parts)) > 1)
                  /\ Len(answer.path_segments) = Cardinality(Reached(parts))
                  /\ \A k \in Reached(parts) :
                        /\ answer.path_segments[k].code = parts[k]
                        /\ answer.path_segments[k].level = k - 1

\* 'A A12 * X' has been decoded on a catalogue with two level-2 codes below
\* A12 and X below one of them
WildcardWitness ==
    /\ call = lookup_call("decode", <<"A", " ", "A", "1", "2", " ", "*", " ", "X">>)
    /\ answer # NoAnswer
    /\ Cardinality(Frontier(split_typecode(call.code), 3)) = 2
    /\ [k \in 1..Len(answer.path_segments) |-> answer.path_segments[k].code]
         = << <<"A">>, <<"A", "1", "2">>, Wildcard, <<"X">> >>

-----------------------------------------------------------------------------
(* C20: validate_code_against_constraints reports a constraint of the      *)
(* given level as violated exactly when all of its conditions hold against *)
(* the selection map (a missing target level makes a condition false) and  *)
(* either mode = allow and the code is not in the expanded code list or    *)
(* mode = deny and the code is in it; is_valid is true exactly when no     *)
(* constraint is violated.  With an allow-constraint on level 3, prefix    *)
(* 'M' at level 1, codes C010-C020 and sel[1] = 'M313', X999 is invalid    *)
(* with one violation and C015 is valid.                                   *)

\* the condition matches the selection of the call at its target level
ConditionHolds(cond) ==
    /\ cond.target_level \in DOMAIN call.previous_selections
    /\ LET selected == call.previous_selections[cond.target_level]
       IN IF cond.condition_type = "exact_code" THEN selected = cond.value
          ELSE IF cond.condition_type = "prefix"
            THEN \E rest \in 0..Len(selected) :
                   Len(cond.value) + rest = Len(selected)
                   /\ \A i \in 1..Len(cond.value) : selected[i] = cond.value[i]
          ELSE check_pattern_match(Len(selected), cond.value)

\* the constraints of the table that the claim counts as violated by the call
ShouldBeViolated ==
    {c \in constraints :
        /\ c.level = call.level
        /\ \A cond \in c.conditions : ConditionHolds(cond)
        /\ \/ c.mode = "allow" /\ call.code \notin all_codes(c)
           \/ c.mode = "deny" /\ call.code \in all_codes(c)}

ValidationReportsViolations ==
    (call.op = "validate" /\ answer # NoAnswer)
    => /\ answer.violated_constraints = {c.id : c \in ShouldBeViolated}
       /\ answer.is_valid = (ShouldBeViolated = {})

\* the allow-constraint of the example with sel[1] = 'M313'
ExampleConstraint ==
    Constraint(1, 3, "allow", {ConstraintCondition("prefix", 1, <<"M">>)},
               {ConstraintCode("range", C010toC020)})

\* X999 has been refused with one violation under the example's constraint
ValidationWitness ==
    /\ constraints = {ExampleConstraint}
    /\ call = validate_call(X999, 3, [l \in {1} |-> M313])
    /\ answer # NoAnswer
    /\ ~answer.is_valid
    /\ Cardinality(answer.violated_constraints) = 1

\* C015 has been accepted under the example's constraint
ValidationAcceptsWitness ==
    /\ constraints = {ExampleConstraint}
    /\ call = validate_call(C015, 3, [l \in {1} |-> M313])
    /\ answer # NoAnswer
    /\ answer.is_valid

-----------------------------------------------------------------------------
(* C21: expand_code_range returns, for a numeric-suffix range with common  *)
(* prefix, every code from start to end in ascending order with the        *)
(* zero-padded width of the start preserved, and for a single-letter range *)
(* every letter from start to end in order; 'PS001-PS003' expands to       *)
(* exactly [PS001, PS002, PS003] and a text without '-' expands to itself. *)

Expanded == call.op = "expand" /\ answer # NoAnswer

\* the numeric code of value v behind prefix, padded with zeros to width
IsNumberCode(code, prefix, v, width) ==
    /\ Len(code) >= Len(prefix) + width
    /\ SubSeq(code, 1, Len(prefix)) = prefix
    /\ LET d == SubSeq(code, Len(prefix) + 1, Len(code))
       IN /\ \A i \in DOMAIN d : d[i] \in Range(DigitChars)
          /\ int(d) = v
          /\ Len(d) > width => d[1] # "0"

\* 1-based place of an upper- or lower-case letter in the alphabet
Place(letter) == index(LetterChars, IF letter = <<"a">> THEN "A" ELSE letter[1])

\* codes are the numeric codes from..to behind prefix, ascending
NumbersFromTo(codes, prefix, from, to, width) ==
    /\ Len(codes) = IF to >= from THEN to - from + 1 ELSE 0
    /\ \A k \in DOMAIN codes : IsNumberCode(codes[k], prefix, from + k - 1, width)

\* codes are the letters from..to behind prefix, in order
LettersFromTo(codes, prefix, from, to) ==
    /\ Len(codes) = IF to >= from THEN to - from + 1 ELSE 0
    /\ \A k \in DOMAIN codes : codes[k] = prefix \o <<LetterChars[from + k - 1]>>

-----------------------------------------------------------------------------
(* C22: get_derived_group_name answers is_unique = TRUE with group_name g  *)
(* exactly when the non-NULL group names of the leaves of the family that  *)
(* are consistent with every usable selection are the singleton {g};       *)
(* otherwise it answers is_unique = FALSE and lists every candidate name.  *)

DerivedGroupAnswered == call.op = "group" /\ answer # NoAnswer

\* the families the request names: the level-0 nodes with the code of its
\* first selection of level 0
RequestedFamilies ==
    LET at == {i \in 1..Len(call.previous_selections) : call.previous_selections[i].level = 0}
    IN IF at = {} THEN {}
       ELSE {r \in Ids(nodes) :
               /\ nodes[r].level = 0
               /\ nodes[r].code = call.previous_selections[Min(at)].code}

\* a selection below the family level that carries ids
UsableBelowFamily(selection) ==
    selection.level # 0 /\ (selection.ids # {} \/ selection.id # NoId)

\* the leaves of the family that lie below some id of every usable selection
ConsistentLeaves(root) ==
    {n \in Ids(nodes) :
        /\ IsAncestor(root, n)
        /\ \A c \in Ids(nodes) : nodes[c].parent_id # n
        /\ \A i \in 1..Len(call.previous_selections) :
             UsableBelowFamily(call.previous_selections[i]) =>
                \E a \in CarriedIds(call.previous_selections[i]) : IsAncestor(a, n)}

CandidateNames(root) ==
    {nodes[n].group_name : n \in ConsistentLeaves(root)} \ {NULL}

-----------------------------------------------------------------------------
(* C23: get_node_successor and get_product_successor return, among the     *)
(* successors of the given nodes with show_warning true and effective_date *)
(* NULL or not after today, one of the highest severity in the order       *)
(* critical > warning > info, the most recent first among equals, and      *)
(* has_successor = FALSE when there is none.                               *)

SuccessorAnswered ==
    /\ call.op \in {"get_node_successor", "get_product_successor"}
    /\ answer.status = 200

\* the sets of nodes the request may stand for
AskedNodes ==
    IF call.op = "get_node_successor" THEN {{call.node_id}}
    ELSE product_node_ids(nodes, call)

Eligible(node_ids) ==
    {r \in successors :
        /\ r.source_node_id \in node_ids
        /\ r.show_warning
        /\ r.effective_date = NoDate \/ r.effective_date <= Today}

SeverityRank(severity) ==
    CASE severity = "critical" -> 3
      [] severity = "warning" -> 2
      [] severity = "info" -> 1

MostSevere(rows) ==
    {r \in rows : \A o \in rows :
        \/ SeverityRank(o.warning_severity) < SeverityRank(r.warning_severity)
        \/ /\ SeverityRank(o.warning_severity) = SeverityRank(r.warning_severity)
           /\ o.created_at <= r.created_at}

SuccessorIsMostSevere ==
    SuccessorAnswered =>
        \E node_ids \in AskedNodes :
            IF Eligible(node_ids) = {} THEN ~answer.has_successor
            ELSE /\ answer.has_successor
                 /\ \E r \in MostSevere(Eligible(node_ids)) : r.id = answer.id

-----------------------------------------------------------------------------
(* C24: a successful create_successor_bulk pairs the sources with the      *)
(* targets one to one when both lists have the same size and every node    *)
(* has a full_typecode, and otherwise leaves one info hint for every       *)
(* (source, target) combination; a pair that already has a row is skipped, *)
(* so the call adds no second row for a stored pair.                       *)

BulkCreated == call'.op = "create_successor_bulk" /\ answer'.status = 200

PairOf(r) == <<r.source_node_id, r.target_node_id>>

Pairs(rows) == {PairOf(r) : r \in rows}

Bijections(S, T) == {f \in [S -> T] : \A t \in T : \E s \in S : f[s] = t}

BulkStepPairsOrHints ==
    BulkCreated =>
        LET S == Range(call'.source_node_ids)
            T == Range(call'.target_node_ids)
            added == successors' \ successors
            complete == \A n \in S \cup T : nodes[n].full_typecode # NoText
        IN /\ successors \subseteq successors'
           /\ \A r \in added : PairOf(r) \notin Pairs(successors)
           /\ \A r1, r2 \in added : PairOf(r1) = PairOf(r2) => r1 = r2
           /\ IF complete /\ Cardinality(S) = Cardinality(T)
              THEN \E f \in Bijections(S, T) :
                     /\ {<<s, f[s]>> : s \in S} \subseteq Pairs(successors')
                     /\ Pairs(added) \subseteq {<<s, f[s]>> : s \in S}
              ELSE /\ S \X T \subseteq Pairs(successors')
                   /\ Pairs(added) \subseteq S \X T
                   /\ \A r \in added : r.warning_severity = "info"

BulkHintWitness ==
    /\ call.op = "create_successor_bulk"
    /\ answer.status = 200
    /\ answer.type = "hint"
    /\ answer.created_count = 2

-----------------------------------------------------------------------------
(* C25: creating a successor for a (source_node_id, target_node_id) pair   *)
(* that already has a row fails with a conflict and adds no row, so no two *)
(* successor rows are ever stored for the same pair.                       *)

NoDuplicateSuccessor ==
    \A r1, r2 \in successors :
        (r1.target_node_id # NoId /\ PairOf(r1) = PairOf(r2)) => r1 = r2

-----------------------------------------------------------------------------
(* C26: whenever create_constraint or update_constraint returns an error,  *)
(* the stored constraints with their conditions and codes are what they    *)
(* were before the call, also when the level of the request differs from   *)
(* the level of the stored constraint.                                     *)

ConstraintCallFailed ==
    /\ call'.op \in {"create_constraint", "update_constraint"}
    /\ answer'.status >= 400

FailedConstraintCallChangesNothing ==
    [][ConstraintCallFailed => constraints' = constraints]_vars

-----------------------------------------------------------------------------
(* C27: in every state reached through create_user, change_password and    *)
(* delete_user from a users table with an active admin, a user with role   *)
(* admin and is_active true exists.                                        *)

ActiveAdmins == {u \in DOMAIN users : users[u].role = "admin" /\ users[u].is_active}

-----------------------------------------------------------------------------
(* C28: after build_closure_table has run on an imported forest, pattern   *)
(* containers included, node_paths holds (n, n, 0) for every node n and    *)
(* (a, d, k) exactly when a is reached from d by k parent edges, whatever  *)
(* order the database returns the nodes of equal level in.                 *)

ClosureRebuilt == paths # {}

RebuiltClosureComplete ==
    ClosureRebuilt =>
        paths = {PathRow(ParentChain(nodes, d, k), d, k) :
                    d \in Ids(nodes), k \in 0..MaxForest} \
                {PathRow(NoId, d, k) : d \in Ids(nodes), k \in 0..MaxForest}

-----------------------------------------------------------------------------
(* C29: for a code of two or more tokens without wildcard, decode_typecode *)
(* and check_node_code answer exists = true whenever the forest holds a    *)
(* chain n0, ..., nk with n0 the level-0 node of the first token and each  *)
(* ni carrying token i as code at level i below n(i-1), also when several  *)
(* nodes below the current node carry the code of a token and only some of *)
(* them continue the path.                                                 *)

ChainExists == Matching(split_typecode(call.code), Len(split_typecode(call.code))) # {}

ChainIsFound ==
    (PathLookupAnswered /\ ChainExists) => (answer.status = 200 /\ answer.exists)

-----------------------------------------------------------------------------
(* C30: when two add_node_link requests for the same node run concurrently *)
(* and both return success, both links are in the links array of the node  *)
(* afterwards; likewise for upload_node_image and the pictures array.      *)

Succeeded(r, op) ==
    uploads[r].pc = "done" /\ uploads[r].op = op /\ uploads[r].status = 200

Stored(r) ==
    IF uploads[r].op = "add_node_link"
    THEN uploads[r].url \in Range(links[uploads[r].node_id])
    ELSE uploads[r].url \in Range(pictures[uploads[r].node_id])

====
